---- MODULE Spec2Model ----
(***************************************************************************)
(* Entity lifecycle and interaction engine of the Space Invaders game:     *)
(* ObjectPool and SpatialGrid (core/game-engine.js), Bullet (entities/     *)
(* bullet.js) and the Game methods that use them (game.js).                *)
(***************************************************************************)
EXTENDS Integers, Sequences, FiniteSets, TLC

VARIABLES
    bullets,      \* this.pools.bullets : the ObjectPool of Bullet objects
    initialSize,  \* the initialSize argument the pool was constructed with
    held,         \* the handles callers have obtained from get()
    snap,         \* the array a caller obtained from getActiveObjects()
    lastOp,       \* the call executed by the last step, its argument and
                  \* whether that argument was active when the call was made
    nops,         \* number of calls executed so far
    spatialGrid,  \* this.spatialGrid : the SpatialGrid
    entPos,       \* the position each entity had when it was inserted
    nearby,       \* point and result of the getNearbyEntities call, when that
                  \* was the last call made
    rect1,        \* first argument of collision()
    rect2,        \* second argument of collision()
    overlap,      \* what collision() returned, in both argument orders
    game,         \* the Game object
    now,          \* Date.now()
    rand          \* what Math.random() returns during the next call, in
                  \* thousandths: chance for the threshold tests
                  \* (Math.random() < p), pick for the index draws
                  \* (Math.floor(Math.random() * n))

poolVars == <<bullets, initialSize, held, snap>>
gridVars == <<spatialGrid, entPos, nearby>>
boxVars == <<rect1, rect2, overlap>>
gameVars == <<game, now, rand>>
vars == <<bullets, initialSize, held, snap, lastOp, nops,
          spatialGrid, entPos, nearby, rect1, rect2, overlap,
          game, now, rand>>

\* ------------------------------------------------------------------ bounds
MaxOps == 6
MaxInitialSize == 2

MaxEntities == 2
MaxSteps == 5
MaxPasses == 2
MaxFrames == 5
MaxFlight == 10
StartTime == 100000
MaxCoord == 2
MaxSide == 2

\* ------------------------------------------------------- program constants
DefaultInitialSize == 20
MinOptimalSize == 10
CanvasWidth == 800
CanvasHeight == 600
CellSize == 50
PlayerWidth == 40
PlayerHeight == 30
AlienWidth == 40
AlienHeight == 30
BulletWidth == 4
BulletHeight == 10
BulletSpeed == 5
ItemSize == 20
WingmanHeight == 20
WingmanFireRate == 300
BaseSpeed == 2
MinDropInterval == 2000
MaxActivePowerUps == 3
ComboCooldown == 5000
Infinity == -1
SpeedIncrement == 1
ChainRadius == 120
MaxChains == 6
DropDistance == 20
AlienBulletSpeed == 4
NormalAlienBulletSpeed == 3
PlayerFireRate == 200
RapidFireRate == 25
ItemSpeed == 2
ExplosionRadius == 200
BombScore == 25
TargetFPS == 60

\* ----------------------------------------------------------------- helpers
Max(a, b) == IF a >= b THEN a ELSE b
Min(a, b) == IF a <= b THEN a ELSE b
Range(s) == {s[i] : i \in 1..Len(s)}
NoDuplicates(s) == \A i, j \in 1..Len(s) : i # j => s[i] # s[j]

\* JavaScript Set, kept in insertion order
SetHas(s, o) == o \in Range(s)
SetAdd(s, o) == IF SetHas(s, o) THEN s ELSE Append(s, o)
SetDelete(s, o) == SelectSeq(s, LAMBDA e : e # o)

\* ---------------------------------------------------------- configuration
\* GAME_CONFIG.powerUps: score, kind of effect and duration (ms) per type
PowerUpConfig ==
    [life |-> [score |-> 50, type |-> "instant", duration |-> 0],
     bomb |-> [score |-> 150, type |-> "instant", duration |-> 0],
     shield |-> [score |-> 75, type |-> "permanent", duration |-> 0],
     rapidFire |-> [score |-> 100, type |-> "timed", duration |-> 5000],
     quadShot |-> [score |-> 125, type |-> "timed", duration |-> 10000],
     slowMotion |-> [score |-> 80, type |-> "timed", duration |-> 7000],
     multiplier |-> [score |-> 90, type |-> "timed", duration |-> 15000],
     laser |-> [score |-> 150, type |-> "timed", duration |-> 2500],
     splitShot |-> [score |-> 125, type |-> "timed", duration |-> 8000],
     guidedShot |-> [score |-> 100, type |-> "timed", duration |-> 6000],
     timeWarp |-> [score |-> 120, type |-> "timed", duration |-> 4000],
     diamondShot |-> [score |-> 110, type |-> "timed", duration |-> 5000],
     wingman |-> [score |-> 120, type |-> "timed", duration |-> 8000],
     chainLightning |-> [score |-> 130, type |-> "timed", duration |-> 7000]]

\* the keys of this.powerUps that carry {active, expireTime}
PowerUpKeys ==
    {"shield", "rapidFire", "quadShot", "splitShot", "slowMotion",
     "multiplier", "laser", "guidedShot", "timeWarp", "diamondShot",
     "wingman", "chainLightning"}

\* PowerUp.types, in array order
PowerUpTypes ==
    <<"life", "rapidFire", "shield", "quadShot", "slowMotion", "bomb",
      "multiplier", "laser", "splitShot", "guidedShot", "timeWarp",
      "diamondShot", "wingman", "chainLightning">>

\* ------------------------------------------------------------ environment
\* what Date.now() and Math.random() give during one call; the operators
\* below receive it as their last argument env
Env == [now |-> now, rand |-> rand]

\* Math.random() < p, p in thousandths
RandomBelow(p, env) == env.rand.chance < p
\* Math.floor(Math.random() * n)
RandomIndex(n, env) == (env.rand.pick * n) \div 1000

\* ------------------------------------------------------------------ Player
\* new Player(x, y); quadShot, guidedShot, timeWarp, diamondShot and
\* chainLightning are absent until handleTimedPowerUp assigns them
NewPlayer(x, y) ==
    [x |-> x, y |-> y, rapidFire |-> FALSE, shield |-> FALSE,
     splitShot |-> FALSE, laser |-> FALSE, pointsMultiplier |-> 1,
     quadShot |-> FALSE, guidedShot |-> FALSE, timeWarp |-> FALSE,
     diamondShot |-> FALSE, chainLightning |-> FALSE]

\* Player.reset(x, y)
PlayerReset(pl, x, y) ==
    [pl EXCEPT !.x = x, !.y = y, !.rapidFire = FALSE, !.shield = FALSE,
               !.splitShot = FALSE, !.laser = FALSE, !.pointsMultiplier = 1]

\* the boxes collision() is given
PlayerBox(pl) ==
    [x |-> pl.x, y |-> pl.y, width |-> PlayerWidth, height |-> PlayerHeight]
AlienBox(a) ==
    [x |-> a.x, y |-> a.y, width |-> AlienWidth, height |-> AlienHeight]
BulletBox(b) ==
    [x |-> b.x, y |-> b.y, width |-> BulletWidth, height |-> BulletHeight]
ItemBox(i) ==
    [x |-> i.x, y |-> i.y, width |-> ItemSize, height |-> ItemSize]

\* ------------------------------------------------------------------- Alien
\* Alien.determineType(row)
determineType(row, env) ==
    IF row = 0 THEN (IF RandomBelow(200, env) THEN "shielded" ELSE "normal")
    ELSE IF row = 1 THEN (IF RandomBelow(150, env) THEN "shooter" ELSE "normal")
    ELSE "normal"

\* Alien.reset(x, y, row); shieldStrength 0 stands for an absent field, and
\* so do shootTimer 0 and shootInterval 0. x is the whole pixels of this.x
\* and sub its fraction in twentieths of a pixel; shootInterval is
\* 1000 + Math.random() * 2000
AlienReset(a, x, y, row, env) ==
    LET type == determineType(row, env)
    IN [a EXCEPT !.x = x, !.sub = 0, !.y = y, !.row = row, !.type = type,
                 !.shieldStrength = IF type = "shielded" THEN 2 ELSE @,
                 !.shootTimer = IF type = "shooter" THEN 0 ELSE @,
                 !.shootInterval = IF type = "shooter"
                                   THEN 1000 + 2 * env.rand.chance ELSE @]

\* new Alien(x, y, row)
NewAlien(x, y, row, env) ==
    AlienReset([x |-> 0, sub |-> 0, y |-> 0, row |-> 0, type |-> "normal",
                shieldStrength |-> 0, shootTimer |-> 0, shootInterval |-> 0],
               x, y, row, env)

\* ----------------------------------------------------------------- PowerUp
RemoveAll(s, v) == SelectSeq(s, LAMBDA e : e # v)

\* PowerUp.selectOptimalType(gameInstance), gameInstance given
selectOptimalType(pu, env) ==
    LET f1 == IF pu.quadShot.active /\ RandomBelow(700, env)
              THEN RemoveAll(PowerUpTypes, "splitShot") ELSE PowerUpTypes
        filteredTypes == IF pu.splitShot.active /\ RandomBelow(700, env)
                         THEN RemoveAll(f1, "quadShot") ELSE f1
        activeShootingCount ==
            Cardinality({k \in {"quadShot", "splitShot", "rapidFire",
                                "laser", "guidedShot"} : pu[k].active})
        availableUtility ==
            SelectSeq(filteredTypes,
                      LAMBDA t : t \in {"life", "shield", "slowMotion",
                                        "bomb", "multiplier"})
    IN IF activeShootingCount >= 2 /\ Len(availableUtility) > 0
          /\ RandomBelow(600, env)
       THEN availableUtility[RandomIndex(Len(availableUtility), env) + 1]
       ELSE filteredTypes[RandomIndex(Len(filteredTypes), env) + 1]

\* PowerUp.reset(x, y) without a game instance: a random type
ItemReset(i, x, y, env) ==
    [i EXCEPT !.x = x, !.y = y,
              !.type = PowerUpTypes[RandomIndex(Len(PowerUpTypes), env) + 1]]

\* PowerUp.reset(x, y, gameInstance)
ItemResetIn(i, x, y, pu, env) ==
    [i EXCEPT !.x = x, !.y = y, !.type = selectOptimalType(pu, env)]

\* new PowerUp(x, y)
NewItem(x, y, env) == ItemReset([x |-> 0, y |-> 0, type |-> "life"], x, y, env)

\* ------------------------------------------------------------------ Bullet
\* new Bullet(0, 0, 0, color, game): the fields reset() assigns; the special
\* flags other than splitShot are absent (falsy) on a fresh object. y is
\* the whole pixels of this.y and sub its fraction in tenths of a pixel; the
\* bullets of the alienBullets pool keep speed in tenths of a pixel a frame,
\* the player's in whole pixels
NewBullet ==
    [x |-> 0, y |-> 0, sub |-> 0, speed |-> 0, speedX |-> 0,
     speedY |-> "undefined", splitShot |-> FALSE,
     guidedShot |-> FALSE, diamondShot |-> FALSE, chainLightning |-> FALSE,
     wingmanBullet |-> FALSE]

\* Bullet.reset(x, y, speed, color, game)
BulletReset(b, x, y, speed) ==
    [b EXCEPT !.x = x, !.y = y, !.sub = 0, !.speed = speed, !.speedX = 0,
              !.splitShot = FALSE]

\* -------------------------------------------------------------- ObjectPool
\* the createFn / resetFn pairs the Game constructor passes
createFn(kind, env) ==
    IF kind = "aliens" THEN NewAlien(0, 0, 0, env)
    ELSE IF kind = "powerUps" THEN NewItem(0, 0, env)
    ELSE NewBullet

resetFn(kind, obj, env) ==
    IF kind = "aliens" THEN AlienReset(obj, 0, 0, 0, env)
    ELSE IF kind = "powerUps" THEN ItemReset(obj, 0, 0, env)
    ELSE BulletReset(obj, 0, 0, 0)

\* constructor(createFn, resetFn, initialSize); objects are identified by
\* their index in objs, resets counts the resetFn invocations
ObjectPool(kind, size, env) ==
    [kind |-> kind,
     pool |-> [i \in 1..size |-> i],
     active |-> <<>>,
     objs |-> [i \in 1..size |-> createFn(kind, env)],
     stats |-> [totalCreated |-> size, maxActive |-> 0,
                poolHits |-> 0, poolMisses |-> 0],
     resets |-> 0]

\* get(): the pool afterwards (p) and the object returned (obj)
get(p, env) ==
    LET hit == Len(p.pool) > 0
        obj == IF hit THEN p.pool[Len(p.pool)] ELSE Len(p.objs) + 1
        act == SetAdd(p.active, obj)
    IN [obj |-> obj,
        p |-> [p EXCEPT
                 !.pool = IF hit THEN SubSeq(@, 1, Len(@) - 1) ELSE @,
                 !.objs = IF hit THEN @ ELSE Append(@, createFn(p.kind, env)),
                 !.stats = [totalCreated |-> IF hit THEN @.totalCreated
                                             ELSE @.totalCreated + 1,
                            maxActive |-> Max(@.maxActive, Len(act)),
                            poolHits |-> IF hit THEN @.poolHits + 1
                                         ELSE @.poolHits,
                            poolMisses |-> IF hit THEN @.poolMisses
                                           ELSE @.poolMisses + 1],
                 !.active = act]]

release_unguarded(p, obj, env) ==
    [p EXCEPT !.active = SetDelete(@, obj),
              !.objs[obj] = resetFn(p.kind, @, env),
              !.pool = Append(@, obj),
              !.resets = @ + 1]

release_dropping(p, obj, env) ==
    IF SetHas(p.active, obj)
    THEN [p EXCEPT !.active = SetDelete(@, obj),
                   !.objs[obj] = resetFn(p.kind, @, env),
                   !.resets = @ + 1]
    ELSE p

\* release(obj)
release(p, obj, env) ==
    IF SetHas(p.active, obj)
    THEN [p EXCEPT !.active = SetDelete(@, obj),
                   !.objs[obj] = resetFn(p.kind, @, env),
                   !.pool = Append(@, obj),
                   !.resets = @ + 1]
    ELSE p

\* releaseAll()
releaseAll(p, env) ==
    [p EXCEPT !.objs = [i \in 1..Len(@) |->
                          IF SetHas(p.active, i) THEN resetFn(p.kind, @[i], env)
                          ELSE @[i]],
              !.pool = @ \o p.active,
              !.resets = @ + Len(p.active),
              !.active = <<>>]

\* an array object as a caller sees it: either storage of its own (items) or
\* the pool's live active collection
ArrayView(a, p) == IF a.alias THEN p.active ELSE a.items

getActiveObjects_live(p) == [alias |-> TRUE, items |-> p.active]

\* getActiveObjects(): Array.from(this.active) builds a new array
getActiveObjects(p) == [alias |-> FALSE, items |-> p.active]

\* optimize(): optimalSize = max(maxActive * 1.5, 10), held doubled here
\* (optimal2) so that the arithmetic stays in the integers; splice(0, excess)
\* truncates a fractional excess, the for loop runs ceil(needed) times
optimize(p, env) ==
    LET optimal2 == Max(3 * p.stats.maxActive, 2 * MinOptimalSize)
        len == Len(p.pool)
        excess == (2 * len - optimal2) \div 2
        needed == (optimal2 - 2 * len + 1) \div 2
    IN IF 2 * len > optimal2
       THEN [p EXCEPT !.pool = SubSeq(@, excess + 1, len)]
       ELSE IF 2 * len < optimal2
       THEN [p EXCEPT
               !.pool = @ \o [i \in 1..needed |-> Len(p.objs) + i],
               !.objs = @ \o [i \in 1..needed |-> createFn(p.kind, env)]]
       ELSE p

\* ------------------------------------------------------------- SpatialGrid
\* Math.floor(a / b) and Math.ceil(a / b) for integer a and positive b
Floor(a, b) == a \div b
Ceil(a, b) == (a + b - 1) \div b

\* constructor(width, height, cellSize): grid is an array of cols * rows
\* cells, indexed from 0
SpatialGrid(width, height, cellSize) ==
    [cellSize |-> cellSize,
     cols |-> Ceil(width, cellSize),
     rows |-> Ceil(height, cellSize),
     grid |-> [i \in 0..(Ceil(width, cellSize) * Ceil(height, cellSize) - 1)
                 |-> <<>>]]

GridLength(g) == g.cols * g.rows

\* getCellIndex(x, y)
getCellIndex(g, x, y) ==
    LET col == Floor(x, g.cellSize)
        row == Floor(y, g.cellSize)
    IN row * g.cols + col

\* insert(entity), entity.x = x and entity.y = y
insert(g, entity, x, y) ==
    LET index == getCellIndex(g, x, y)
    IN IF index >= 0 /\ index < GridLength(g)
       THEN [g EXCEPT !.grid[index] = Append(@, entity)]
       ELSE g

\* the cells getNearbyEntities visits, in its loop order (dy outer, dx inner)
NeighbourOffsets ==
    << <<-1, -1>>, <<0, -1>>, <<1, -1>>,
       <<-1, 0>>,  <<0, 0>>,  <<1, 0>>,
       <<-1, 1>>,  <<0, 1>>,  <<1, 1>> >>

RECURSIVE CollectCells(_, _, _, _)
CollectCells(g, col, row, k) ==
    IF k > Len(NeighbourOffsets) THEN <<>>
    ELSE LET checkCol == col + NeighbourOffsets[k][1]
             checkRow == row + NeighbourOffsets[k][2]
             index == checkRow * g.cols + checkCol
             cell == IF index >= 0 /\ index < GridLength(g)
                     THEN g.grid[index] ELSE <<>>
         IN cell \o CollectCells(g, col, row, k + 1)

getNearbyEntities_sameCell(g, x, y) ==
    LET index == getCellIndex(g, x, y)
    IN IF index >= 0 /\ index < GridLength(g) THEN g.grid[index] ELSE <<>>

\* getNearbyEntities(x, y)
getNearbyEntities(g, x, y) ==
    CollectCells(g, Floor(x, g.cellSize), Floor(y, g.cellSize), 1)

\* clear()
clear(g) == [g EXCEPT !.grid = [i \in DOMAIN @ |-> <<>>]]

\* --------------------------------------------------------------- collision
\* Game.collision(rect1, rect2)
collision_closed(r1, r2) ==
    /\ r1.x <= r2.x + r2.width
    /\ r1.x + r1.width > r2.x
    /\ r1.y < r2.y + r2.height
    /\ r1.y + r1.height > r2.y

collision(r1, r2) ==
    /\ r1.x < r2.x + r2.width
    /\ r1.x + r1.width > r2.x
    /\ r1.y < r2.y + r2.height
    /\ r1.y + r1.height > r2.y

\* -------------------------------------------------------------------- Game
\* Explosion particles, sounds, screen shake, splash labels and stars are
\* drawing and audio only and are not part of the state below.
NoPowerUp == [active |-> FALSE, expireTime |-> 0]
RemoveAt(s, i) == SubSeq(s, 1, i - 1) \o SubSeq(s, i + 1, Len(s))
RandomBelow10k(p, env) == env.rand.chance * 10 < p

\* the score multiplier read at every award
Multiplier(G) ==
    IF G.powerUps.multiplier.active THEN G.powerUps.multiplier.value ELSE 1

\* updateUI(): the part that changes state
updateUI(G) ==
    IF G.state.score > G.state.highScore
    THEN [G EXCEPT !.state.highScore = G.state.score]
    ELSE G

\* spawnPowerUpIfAppropriate(x, y, isBomb); chances in ten-thousandths
spawnPowerUpIfAppropriate(G, x, y, isBomb, env) ==
    LET lastDropTime == G.powerUpManager.lastDropTime
        activeCount == Len(G.pools.powerUps.active)
        hasComboPowerUps ==
            G.powerUps.quadShot.active /\ G.powerUps.splitShot.active
        base == IF isBomb THEN 2500 ELSE 800
        reduced == IF activeCount > 1 THEN base \div 2 ELSE base
        baseChance == IF hasComboPowerUps THEN (reduced * 3) \div 10
                      ELSE reduced
        r == get(G.pools.powerUps, env)
        item == ItemResetIn(r.p.objs[r.obj], x, y, G.powerUps, env)
    IN IF env.now - lastDropTime < MinDropInterval THEN G
       ELSE IF activeCount >= MaxActivePowerUps THEN G
       ELSE IF hasComboPowerUps /\ env.now - lastDropTime < ComboCooldown THEN G
       ELSE IF RandomBelow10k(baseChance, env)
       THEN [G EXCEPT !.pools.powerUps = [r.p EXCEPT !.objs[r.obj] = item],
                      !.powerUpManager.lastDropTime = env.now]
       ELSE G

\* createExplosion(x, y, isBomb)
createExplosion(G, x, y, isBomb, env) == spawnPowerUpIfAppropriate(G, x, y, isBomb, env)

RECURSIVE ReleaseEach(_, _, _, _)
ReleaseEach(p, list, i, env) ==
    IF i > Len(list) THEN p
    ELSE ReleaseEach(release(p, list[i], env), list, i + 1, env)

\* createAliens(): the nested row / col loops, k = row * cols + col; the
\* loops begin with this.aliens empty and push one alien in every turn, so
\* that they are over when it holds rows * cols aliens
RECURSIVE CreateAliensLoop(_, _, _, _, _)
CreateAliensLoop(G, rows, cols, k, env) ==
    IF Len(G.aliens) >= rows * cols THEN G
    ELSE LET row == k \div cols
             col == k % cols
             x == 100 + col * (AlienWidth + 10)
             y == 50 + row * (AlienHeight + 10)
             r == get(G.pools.aliens, env)
             alien == AlienReset(r.p.objs[r.obj], x, y, row, env)
         IN CreateAliensLoop(
              [G EXCEPT !.pools.aliens = [r.p EXCEPT !.objs[r.obj] = alien],
                        !.aliens = Append(@, r.obj)],
              rows, cols, k + 1, env)

\* createAliens()
createAliens(G, env) ==
    LET wave == G.state.wave
        rows == Min(5 + wave \div 3, 8)
        cols == Max(11 - wave \div 5, 6)
    IN CreateAliensLoop(
         [G EXCEPT !.pools.aliens = ReleaseEach(@, G.aliens, 1, env),
                   !.aliens = <<>>],
         rows, cols, 0, env)

ReleaseAllPools(pools, env) == [k \in DOMAIN pools |-> releaseAll(pools[k], env)]

\* updatePowerUpTimers(): the keys of expirationMap
ExpirationMap == PowerUpKeys \ {"slowMotion"}

\* the Game constructor; alienMovement.speed is kept in half pixels a frame,
\* this.powerUps.bomb is the field bomb, the particle pool (drawing only) is
\* left out. Its call of gameLoop() leaves lastFrameTime at 0. executed
\* records the times at which gameLoop() has called update(), phases the
\* parts of update() in the order in which the last call went through them,
\* expirations how often each expirationEffect of updatePowerUpTimers() ran,
\* dropped whether the last updateAliens() found shouldDrop true
NewGame(env) ==
    createAliens(
      [state |-> [current |-> "menu", score |-> 0, lives |-> 3, wave |-> 1,
                  highScore |-> 0],
       player |-> NewPlayer(CanvasWidth \div 2, CanvasHeight - 50),
       wingman |-> [x |-> 0, y |-> 0, active |-> FALSE, lastShot |-> 0],
       pools |-> [bullets |-> ObjectPool("bullets", DefaultInitialSize, env),
                  alienBullets |-> ObjectPool("alienBullets",
                                              DefaultInitialSize, env),
                  powerUps |-> ObjectPool("powerUps", DefaultInitialSize, env),
                  aliens |-> ObjectPool("aliens", DefaultInitialSize, env)],
       aliens |-> <<>>,
       alienMovement |-> [direction |-> 1, speed |-> BaseSpeed],
       dropped |-> FALSE,
       powerUps |-> [k \in PowerUpKeys |->
                       IF k = "multiplier"
                       THEN [active |-> FALSE, expireTime |-> 0, value |-> 1]
                       ELSE NoPowerUp],
       bomb |-> [count |-> 0, ready |-> FALSE],
       powerUpManager |-> [lastDropTime |-> 0],
       input |-> [lastShot |-> 0],
       expirations |-> [k \in ExpirationMap |-> 0],
       lastFrameTime |-> 0,
       executed |-> <<>>,
       phases |-> <<>>,
       spatialGrid |-> SpatialGrid(CanvasWidth, CanvasHeight, CellSize),
       zaps |-> <<>>,
       log |-> <<>>,
       untested |-> <<>>], env)

startGame_clearBombs(G, env) ==
    LET G1 == [G EXCEPT
                 !.state = [@ EXCEPT !.current = "playing", !.score = 0,
                                     !.lives = 3, !.wave = 1],
                 !.alienMovement.speed = BaseSpeed,
                 !.bomb = [count |-> 0, ready |-> FALSE],
                 !.powerUps = [k \in PowerUpKeys |->
                                 [@[k] EXCEPT !.active = FALSE,
                                              !.expireTime = 0]],
                 !.player = PlayerReset(@, CanvasWidth \div 2,
                                        CanvasHeight - 50),
                 !.pools = ReleaseAllPools(@, env),
                 !.aliens = <<>>]
    IN updateUI(createAliens(G1, env))

\* startGame()
startGame(G, env) ==
    LET G1 == [G EXCEPT
                 !.state = [@ EXCEPT !.current = "playing", !.score = 0,
                                     !.lives = 3, !.wave = 1],
                 !.alienMovement.speed = BaseSpeed,
                 !.bomb.ready = G.bomb.count > 0,
                 !.powerUps = [k \in PowerUpKeys |->
                                 [@[k] EXCEPT !.active = FALSE,
                                              !.expireTime = 0]],
                 !.player = PlayerReset(@, CanvasWidth \div 2,
                                        CanvasHeight - 50),
                 !.pools = ReleaseAllPools(@, env),
                 !.aliens = <<>>]
    IN updateUI(createAliens(G1, env))

\* gameOver()
gameOver(G, env) ==
    [G EXCEPT !.state.highScore = Max(@, G.state.score),
              !.state.current = "gameOver",
              !.pools = ReleaseAllPools(@, env),
              !.aliens = <<>>]

\* getBulletConfiguration(): count, positions and speeds
getBulletConfiguration(G) ==
    LET px == G.player.x
        quad == << px + 2, px + 8, px + PlayerWidth - 8, px + PlayerWidth - 2 >>
        quadSpeeds == << -3, -1, 1, 3 >>
    IN IF ~G.powerUps.quadShot.active
       THEN [count |-> 1, positions |-> << px + PlayerWidth \div 2 >>,
             speeds |-> << 0 >>]
       ELSE IF G.powerUps.splitShot.active
       THEN [count |-> 3, positions |-> SubSeq(quad, 1, 3),
             speeds |-> SubSeq(quadSpeeds, 1, 3)]
       ELSE [count |-> 4, positions |-> quad, speeds |-> quadSpeeds]

\* fireLaser(): the loop over this.aliens from the last index down
RECURSIVE LaserLoop(_, _, _, _)
LaserLoop(G, laserX, i, env) ==
    IF i < 1 THEN G
    ELSE LET alien == G.pools.aliens.objs[G.aliens[i]]
             inBeam == /\ alien.x <= laserX + 2
                       /\ alien.x + AlienWidth >= laserX - 2
                       /\ alien.y + AlienHeight >= 0
                       /\ alien.y <= G.player.y
             G1 == createExplosion(G, alien.x + AlienWidth \div 2,
                                   alien.y + AlienHeight \div 2, FALSE, env)
             G2 == [G1 EXCEPT
                      !.aliens = RemoveAt(@, i),
                      !.state.score = @ + (4 - alien.row) * 10 * Multiplier(G1)]
         IN IF inBeam THEN LaserLoop(G2, laserX, i - 1, env)
            ELSE LaserLoop(G, laserX, i - 1, env)

\* fireLaser()
fireLaser(G, env) ==
    LET G1 == LaserLoop(G, G.player.x + PlayerWidth \div 2, Len(G.aliens), env)
    IN IF Len(G1.aliens) < Len(G.aliens) THEN updateUI(G1) ELSE G1

\* shoot(): the loop that creates the bullets of one shot
RECURSIVE ShootLoop(_, _, _, _)
ShootLoop(G, cfg, i, env) ==
    IF i > cfg.count THEN G
    ELSE LET r == get(G.pools.bullets, env)
             x == IF cfg.positions[i] # 0 THEN cfg.positions[i]
                  ELSE cfg.positions[1]
             b0 == BulletReset(r.p.objs[r.obj], x, G.player.y - 10,
                               -BulletSpeed)
             bullet ==
               [b0 EXCEPT
                  !.speedX = cfg.speeds[i],
                  !.splitShot = IF G.powerUps.splitShot.active
                                THEN TRUE ELSE @,
                  !.guidedShot = IF G.powerUps.guidedShot.active
                                 THEN TRUE ELSE @,
                  !.diamondShot = IF G.powerUps.diamondShot.active
                                  THEN TRUE ELSE @,
                  !.chainLightning = IF G.powerUps.chainLightning.active
                                     THEN TRUE ELSE @]
         IN ShootLoop(
              [G EXCEPT !.pools.bullets = [r.p EXCEPT !.objs[r.obj] = bullet]],
              cfg, i + 1, env)

\* shoot()
shoot(G, env) ==
    IF G.powerUps.laser.active THEN fireLaser(G, env)
    ELSE ShootLoop(G, getBulletConfiguration(G), 1, env)

\* wingmanShoot(): bullet.reset(x, y, 0, -8, color) leaves speed at 0
wingmanShoot(G, env) ==
    LET r == get(G.pools.bullets, env)
        b0 == BulletReset(r.p.objs[r.obj], G.wingman.x + 13, G.wingman.y, 0)
        bullet == [b0 EXCEPT !.guidedShot = TRUE, !.wingmanBullet = TRUE]
    IN [G EXCEPT !.pools.bullets = [r.p EXCEPT !.objs[r.obj] = bullet]]

\* updateWingman(); oscillation stands for Math.sin(offset) * 15 - 0.5, so
\* that wingman.x + width / 2 is a whole number
updateWingman(G, oscillation, env) ==
    LET G1 == [G EXCEPT
                 !.wingman.x = G.player.x + PlayerWidth + 10 + oscillation,
                 !.wingman.y = G.player.y + PlayerHeight \div 2
                               - WingmanHeight \div 2]
    IN IF ~G.wingman.active THEN G
       ELSE IF env.now - G.wingman.lastShot >= WingmanFireRate
       THEN [wingmanShoot(G1, env) EXCEPT !.wingman.lastShot = env.now]
       ELSE G1

\* handleInstantPowerUp(type)
handleInstantPowerUp(G, type) ==
    IF type = "life" THEN [G EXCEPT !.state.lives = Min(@ + 1, 5)]
    ELSE IF type = "bomb"
    THEN [G EXCEPT !.bomb = [count |-> @.count + 1, ready |-> TRUE]]
    ELSE G

\* handlePermanentPowerUp(type, config)
handlePermanentPowerUp(G, type) ==
    IF type = "shield"
    THEN [G EXCEPT !.powerUps.shield = [active |-> TRUE,
                                        expireTime |-> Infinity],
                   !.player.shield = TRUE]
    ELSE G

\* handleTimedPowerUp(type, config, currentTime)
handleTimedPowerUp(G, type, config, currentTime) ==
    LET G1 == [G EXCEPT
                 !.powerUps[type] =
                     [@ EXCEPT !.active = TRUE,
                               !.expireTime = currentTime + config.duration]]
    IN IF type = "wingman" THEN [G1 EXCEPT !.wingman.active = TRUE]
       ELSE IF type = "slowMotion" THEN G1
       ELSE IF type = "multiplier"
       THEN [G1 EXCEPT !.player.pointsMultiplier = 2]
       ELSE [G1 EXCEPT !.player[type] = TRUE]

\* applyPowerUp(type)
applyPowerUp(G, type, env) ==
    LET config == PowerUpConfig[type]
        G1 == [G EXCEPT !.state.score = @ + config.score]
    IN updateUI(
         IF config.type = "instant" THEN handleInstantPowerUp(G1, type)
         ELSE IF config.type = "permanent"
         THEN handlePermanentPowerUp(G1, type)
         ELSE handleTimedPowerUp(G1, type, config, env.now))

updatePowerUpTimers_atExpiry(G, env) ==
    LET expired == {k \in PowerUpKeys :
                      /\ G.powerUps[k].expireTime # Infinity
                      /\ G.powerUps[k].active
                      /\ env.now >= G.powerUps[k].expireTime}
    IN [G EXCEPT
          !.powerUps = [k \in PowerUpKeys |->
                          IF k \notin expired THEN @[k]
                          ELSE IF k = "multiplier"
                          THEN [@[k] EXCEPT !.active = FALSE, !.value = 1]
                          ELSE [@[k] EXCEPT !.active = FALSE]],
          !.player = [f \in DOMAIN @ |->
                        IF f = "pointsMultiplier" /\ "multiplier" \in expired
                        THEN 1
                        ELSE IF f \in expired THEN FALSE
                        ELSE @[f]],
          !.wingman.active = IF "wingman" \in expired THEN FALSE ELSE @]

updatePowerUpTimers_noSkip(G, env) ==
    LET expired == {k \in PowerUpKeys :
                      /\ G.powerUps[k].active
                      /\ env.now > G.powerUps[k].expireTime}
    IN [G EXCEPT
          !.powerUps = [k \in PowerUpKeys |->
                          IF k \notin expired THEN @[k]
                          ELSE IF k = "multiplier"
                          THEN [@[k] EXCEPT !.active = FALSE, !.value = 1]
                          ELSE [@[k] EXCEPT !.active = FALSE]],
          !.player = [f \in DOMAIN @ |->
                        IF f = "pointsMultiplier" /\ "multiplier" \in expired
                        THEN 1
                        ELSE IF f \in expired THEN FALSE
                        ELSE @[f]],
          !.wingman.active = IF "wingman" \in expired THEN FALSE ELSE @]

updatePowerUpTimers_recordOnly(G, env) ==
    LET expired == {k \in PowerUpKeys :
                      /\ G.powerUps[k].expireTime # Infinity
                      /\ G.powerUps[k].active
                      /\ env.now > G.powerUps[k].expireTime}
    IN [G EXCEPT
          !.powerUps = [k \in PowerUpKeys |->
                          IF k \notin expired THEN @[k]
                          ELSE [@[k] EXCEPT !.active = FALSE]]]

\* updatePowerUpTimers(): every record that is not permanent, is active and
\* has currentTime > expireTime becomes inactive and its expirationEffect,
\* if it has one, runs
updatePowerUpTimers(G, env) ==
    LET expired == {k \in PowerUpKeys :
                      /\ G.powerUps[k].expireTime # Infinity
                      /\ G.powerUps[k].active
                      /\ env.now > G.powerUps[k].expireTime}
    IN [G EXCEPT
          !.powerUps = [k \in PowerUpKeys |->
                          IF k \notin expired THEN @[k]
                          ELSE IF k = "multiplier"
                          THEN [@[k] EXCEPT !.active = FALSE, !.value = 1]
                          ELSE [@[k] EXCEPT !.active = FALSE]],
          !.player = [f \in DOMAIN @ |->
                        IF f = "pointsMultiplier" /\ "multiplier" \in expired
                        THEN 1
                        ELSE IF f \in expired THEN FALSE
                        ELSE @[f]],
          !.wingman.active = IF "wingman" \in expired THEN FALSE ELSE @,
          !.expirations = [k \in ExpirationMap |->
                             IF k \in expired THEN @[k] + 1 ELSE @[k]]]

nextWave_sameSpeed(G, env) ==
    updateUI(createAliens([G EXCEPT !.state.wave = @ + 1], env))

\* nextWave(); speedIncrement 0.5 is one half pixel
nextWave(G, env) ==
    updateUI(createAliens(
               [G EXCEPT !.state.wave = @ + 1,
                         !.alienMovement.speed = @ + SpeedIncrement],
               env))

\* createSplitBullets: speedX = cos(angle) * 2 and speedY = sin(angle) * -3
\* for angle = 2 * PI * i / splitCount, rounded to whole pixels; the random
\* term of at most 0.3 rad is left out
SplitVelocity(splitCount, i) ==
    IF splitCount = 4
    THEN << <<2, 0>>, <<0, -3>>, <<-2, 0>>, <<0, 3>> >>[i]
    ELSE << <<2, 0>>, <<-1, -3>>, <<-1, 3>> >>[i]

RECURSIVE SplitLoop(_, _, _, _, _, _)
SplitLoop(G, x, y, splitCount, i, env) ==
    IF i > splitCount THEN G
    ELSE LET r == get(G.pools.bullets, env)
             v == SplitVelocity(splitCount, i)
             b0 == BulletReset(r.p.objs[r.obj], x, y, v[2])
             bullet == [b0 EXCEPT !.speedX = v[1]]
         IN SplitLoop(
              [G EXCEPT !.pools.bullets = [r.p EXCEPT !.objs[r.obj] = bullet]],
              x, y, splitCount, i + 1, env)

createSplitBullets_alwaysFour(G, x, y, env) == SplitLoop(G, x, y, 4, 1, env)

\* createSplitBullets(x, y)
createSplitBullets(G, x, y, env) ==
    SplitLoop(G, x, y, IF G.powerUps.quadShot.active THEN 3 ELSE 4, 1, env)

\* chainedAliens.sort((a, b) => a.distance - b.distance) on the squared
\* distance; the sort is stable, so an element's place is the number of
\* elements that are closer, or equally close and earlier in the array
SortByDistance(list) ==
    LET place(i) ==
          1 + Cardinality({j \in 1..Len(list) :
                             \/ list[j].distance < list[i].distance
                             \/ /\ list[j].distance = list[i].distance
                                /\ j < i})
    IN [k \in 1..Len(list) |->
          list[CHOOSE i \in 1..Len(list) : place(i) = k]]

\* createChainLightning: the aliens within chainRadius, from the last index
\* of this.aliens down; index is the 0-based index JavaScript stores
ChainedAliens(G, x, y) ==
    LET n == Len(G.aliens)
        entry(i) ==
          LET alien == G.pools.aliens.objs[G.aliens[i]]
              dx == alien.x + AlienWidth \div 2 - x
              dy == alien.y + AlienHeight \div 2 - y
          IN [alien |-> G.aliens[i], distance |-> dx * dx + dy * dy,
              index |-> i - 1]
    IN SelectSeq([k \in 1..n |-> entry(n + 1 - k)],
                 LAMBDA e : e.distance <= ChainRadius * ChainRadius)

\* createChainLightning(x, y); animateZapSequence() only arms timers, the
\* armed sequence is appended to zaps. Of a sequence, fired counts the
\* timers that have run, awards the score awards they made and removed
\* lists the aliens they took out of this.aliens
createChainLightning(G, x, y, env) ==
    LET chainedAliens ==
            SortByDistance(ChainedAliens(G, x, y))
        maxZaps == Min(MaxChains, Len(chainedAliens))
        zapSequence == [i \in 1..maxZaps |->
                          [alien |-> chainedAliens[i].alien,
                           index |-> chainedAliens[i].index,
                           delay |-> (i - 1) * 100]]
    IN [G EXCEPT !.zaps = Append(@, [sequence |-> zapSequence,
                                    armed |-> env.now, fired |-> 0,
                                    awards |-> 0, removed |-> <<>>])]

\* an entity as the grid stores it: a reference to a pooled object
Ref(kind, id) == [kind |-> kind, id |-> id]

\* list.forEach(e => this.spatialGrid.insert(e)): every cell receives, in
\* list order, the entities whose getCellIndex() is that cell; an entity
\* whose index is outside the array is stored nowhere
InsertEach(g, kind, list, objs) ==
    LET cellOf == [i \in 1..Len(list) |->
                     getCellIndex(g, objs[list[i]].x, objs[list[i]].y)]
        refs == [i \in 1..Len(list) |-> [ref |-> Ref(kind, list[i]),
                                          cell |-> cellOf[i]]]
    IN [g EXCEPT
          !.grid = [c \in DOMAIN @ |->
                      @[c] \o [j \in 1..Cardinality({i \in 1..Len(refs) :
                                                       refs[i].cell = c})
                                 |-> SelectSeq(refs,
                                               LAMBDA e : e.cell = c)[j].ref]]]

\* checkCollisions(): clear and repopulate the spatial grid
RebuildGrid(G) ==
    LET g1 == InsertEach(clear(G.spatialGrid), "aliens", G.aliens,
                         G.pools.aliens.objs)
        g2 == InsertEach(g1, "bullets",
                         getActiveObjects(G.pools.bullets).items,
                         G.pools.bullets.objs)
        g3 == InsertEach(g2, "alienBullets",
                         getActiveObjects(G.pools.alienBullets).items,
                         G.pools.alienBullets.objs)
    IN InsertEach(g3, "powerUps",
                  getActiveObjects(G.pools.powerUps).items,
                  G.pools.powerUps.objs)

\* this.aliens.indexOf(alien), 1-based, 0 when absent
IndexOf(s, e) ==
    IF \E i \in 1..Len(s) : s[i] = e
    THEN CHOOSE i \in 1..Len(s) : s[i] = e /\ \A j \in 1..(i - 1) : s[j] # e
    ELSE 0

Splice_two(s, i) == SubSeq(s, 1, i - 1) \o SubSeq(s, i + 2, Len(s))

\* this.aliens.splice(alienIndex, 1) when alienIndex is not -1
Splice(s, i) == IF i = 0 THEN s ELSE RemoveAt(s, i)

BaseScore_rowPlusOne(alien) ==
    LET baseScore == (alien.row + 1) * 10
    IN IF alien.type = "shielded" THEN baseScore * 2
       ELSE IF alien.type = "shooter" THEN (baseScore * 3) \div 2
       ELSE baseScore

\* score of a destroyed alien before the multiplier
BaseScore(alien) ==
    LET baseScore == (4 - alien.row) * 10
    IN IF alien.type = "shielded" THEN baseScore * 2
       ELSE IF alien.type = "shooter" THEN (baseScore * 3) \div 2
       ELSE baseScore

\* this.pools.bullets.release(bullet)
ReleaseBullet(G, bullet, env) ==
    [G EXCEPT !.pools.bullets = release(@, bullet, env)]

\* the record that log keeps of one hit: the bullet b (id bullet) as it was
\* when it hit, the alien (id) and its position
HitEntry(b, bullet, alien, id) ==
    [bullet |-> bullet, alien |-> id, x |-> b.x, y |-> b.y,
     alienX |-> alien.x, alienY |-> alien.y, diamondShot |-> b.diamondShot,
     splitShot |-> b.splitShot]

ShieldHit_twice(G, bullet, id, env) ==
    ReleaseBullet([G EXCEPT !.pools.aliens.objs[id].shieldStrength = @ - 2],
                  bullet, env)

\* checkCollisions(): a hit on a shielded alien whose shield holds
ShieldHit(G, bullet, id, env) ==
    ReleaseBullet([G EXCEPT !.pools.aliens.objs[id].shieldStrength = @ - 1],
                  bullet, env)

LogShieldHit(G, entry) ==
    [G EXCEPT !.log = Append(@, entry @@ [kind |-> "shield", removed |-> 0])]

\* checkCollisions(): the special effect of the bullet b on a destroying hit
BulletEffect(G, b, bullet, env) ==
    IF b.splitShot
    THEN ReleaseBullet(createSplitBullets(G, b.x, b.y, env), bullet, env)
    ELSE IF b.diamondShot THEN G
    ELSE IF b.chainLightning
    THEN ReleaseBullet(createChainLightning(G, b.x, b.y, env), bullet, env)
    ELSE ReleaseBullet(G, bullet, env)

\* checkCollisions(): the alien leaves this.aliens and is scored; log gets
\* the number of aliens the splice took out
RemoveAndScore(G, alien, id, entry) ==
    updateUI(
      [G EXCEPT
         !.aliens = Splice(@, IndexOf(@, id)),
         !.state.score = @ + BaseScore(alien) * Multiplier(G),
         !.log = Append(@, entry @@
                   [kind |-> "kill",
                    removed |-> Len(G.aliens)
                                - Len(Splice(G.aliens, IndexOf(G.aliens, id)))])])

\* checkCollisions(): what one hit of the bullet b on the alien does, up to
\* the break
Resolve(G, b, bullet, alien, id, env) ==
    IF alien.type = "shielded" /\ alien.shieldStrength > 1
    THEN LogShieldHit(
           createExplosion(ShieldHit(G, bullet, id, env),
                           alien.x + AlienWidth \div 2,
                           alien.y + AlienHeight \div 2, FALSE, env),
           HitEntry(b, bullet, alien, id))
    ELSE RemoveAndScore(
           BulletEffect(
             createExplosion(G, alien.x + AlienWidth \div 2,
                             alien.y + AlienHeight \div 2, FALSE, env),
             b, bullet, env),
           alien, id, HitEntry(b, bullet, alien, id))

ResolveHit(G, bullet, id, env) ==
    Resolve(G, G.pools.bullets.objs[bullet], bullet,
            G.pools.aliens.objs[id], id, env)

\* checkCollisions(): the break out of the loop over nearbyAliens; untested
\* keeps, for each resolved hit, the number of formation aliens among
\* nearbyAliens that the loop had not come to when it ended
Untested(G, n) == [G EXCEPT !.untested = Append(@, n)]

NearbyLoop_noIncludes(G, bullet, nearbyAliens, env) ==
    LET isHit(j) ==
          /\ nearbyAliens[j].kind = "aliens"
          /\ collision(BulletBox(G.pools.bullets.objs[bullet]),
                       AlienBox(G.pools.aliens.objs[nearbyAliens[j].id]))
        hits == {j \in 1..Len(nearbyAliens) : isHit(j)}
        first == CHOOSE j \in hits : \A k \in hits : k <= j
    IN IF hits = {} THEN G
       ELSE Untested(ResolveHit(G, bullet, nearbyAliens[first].id, env), 0)

\* checkCollisions(): the loop over nearbyAliens from the last index down;
\* nothing changes until the first hit, which ends the loop, so the hit that
\* is resolved is the one with the largest index
NearbyLoop(G, bullet, nearbyAliens, env) ==
    LET isHit(j) ==
          /\ nearbyAliens[j].kind = "aliens"
          /\ SetHas(G.aliens, nearbyAliens[j].id)
          /\ collision(BulletBox(G.pools.bullets.objs[bullet]),
                       AlienBox(G.pools.aliens.objs[nearbyAliens[j].id]))
        hits == {j \in 1..Len(nearbyAliens) : isHit(j)}
        first == CHOOSE j \in hits : \A k \in hits : k <= j
    IN IF hits = {} THEN G
       ELSE Untested(ResolveHit(G, bullet, nearbyAliens[first].id, env),
                     Cardinality({j \in 1..(first - 1) :
                                    /\ nearbyAliens[j].kind = "aliens"
                                    /\ nearbyAliens[j].id # nearbyAliens[first].id
                                    /\ SetHas(G.aliens, nearbyAliens[j].id)}))

\* checkCollisions(): the loop over playerBullets from the last index down
RECURSIVE PlayerBulletLoop(_, _, _, _)
PlayerBulletLoop(G, playerBullets, i, env) ==
    IF i < 1 THEN G
    ELSE LET b == G.pools.bullets.objs[playerBullets[i]]
             nearbyAliens == getNearbyEntities(G.spatialGrid, b.x, b.y)
         IN PlayerBulletLoop(
              NearbyLoop(G, playerBullets[i], nearbyAliens, env),
              playerBullets, i - 1, env)

ShieldAbsorbs_recordOnly(G) == [G EXCEPT !.powerUps.shield.active = FALSE]

\* checkCollisions(): the shield absorbs the hit of an alien bullet
ShieldAbsorbs(G) ==
    [G EXCEPT !.powerUps.shield.active = FALSE, !.player.shield = FALSE]

\* checkCollisions(): the player takes damage
PlayerDamaged(G) == updateUI([G EXCEPT !.state.lives = @ - 1])

OutOfLives_negative(G) == G.state.lives < 0

\* checkCollisions(): this.state.lives <= 0
OutOfLives(G) == G.state.lives <= 0

\* checkCollisions(): the loop over alienBullets from the last index down;
\* returned tells that gameOver() was called and the method returned
RECURSIVE AlienBulletLoop(_, _, _, _)
AlienBulletLoop(G, alienBullets, i, env) ==
    IF i < 1 THEN [G |-> G, returned |-> FALSE]
    ELSE LET bullet == alienBullets[i]
             isHit == collision(BulletBox(G.pools.alienBullets.objs[bullet]),
                                PlayerBox(G.player))
             G1 == [G EXCEPT !.pools.alienBullets = release(@, bullet, env)]
             A1 == createExplosion(ShieldAbsorbs(G1),
                                   G.player.x, G.player.y, FALSE, env)
             D1 == createExplosion(PlayerDamaged(G1),
                                   G.player.x, G.player.y, FALSE, env)
         IN IF ~isHit THEN AlienBulletLoop(G, alienBullets, i - 1, env)
            ELSE IF G.powerUps.shield.active
            THEN AlienBulletLoop(A1, alienBullets, i - 1, env)
            ELSE IF OutOfLives(D1)
            THEN [G |-> gameOver(D1, env), returned |-> TRUE]
            ELSE AlienBulletLoop(D1, alienBullets, i - 1, env)

\* checkPowerUpCollisions(): the loop over activePowerUps from the last
\* index down; release() resets the item before its type and position are
\* read
RECURSIVE PowerUpLoop(_, _, _, _)
PowerUpLoop(G, activePowerUps, i, env) ==
    IF i < 1 THEN G
    ELSE LET id == activePowerUps[i]
             isHit == collision(ItemBox(G.pools.powerUps.objs[id]),
                                PlayerBox(G.player))
             G1 == [G EXCEPT !.pools.powerUps = release(@, id, env)]
             powerUp == G1.pools.powerUps.objs[id]
             G2 == createExplosion(applyPowerUp(G1, powerUp.type, env),
                                   powerUp.x, powerUp.y, FALSE, env)
         IN IF isHit THEN PowerUpLoop(G2, activePowerUps, i - 1, env)
            ELSE PowerUpLoop(G, activePowerUps, i - 1, env)

\* checkPowerUpCollisions()
checkPowerUpCollisions(G, env) ==
    LET activePowerUps == getActiveObjects(G.pools.powerUps).items
    IN PowerUpLoop(G, activePowerUps, Len(activePowerUps), env)

\* checkCollisions(): player bullets against aliens
PlayerBulletsPass(G, env) ==
    PlayerBulletLoop(G, getActiveObjects(G.pools.bullets).items,
                     Len(getActiveObjects(G.pools.bullets).items), env)

\* checkCollisions(): alien bullets against the player
AlienBulletsPass(G, env) ==
    AlienBulletLoop(G, getActiveObjects(G.pools.alienBullets).items,
                    Len(getActiveObjects(G.pools.alienBullets).items), env)

\* update() and checkCollisions() come to the named part
Phase(G, name) == [G EXCEPT !.phases = Append(@, name)]

\* checkCollisions(): the check for wave completion
WaveCheck(G, env) ==
    IF Len(G.aliens) = 0 /\ G.state.current = "playing"
    THEN nextWave(Phase(G, "waveCheck"), env)
    ELSE Phase(G, "waveCheck")

\* checkCollisions(): what follows the alien bullets, unless the method has
\* returned
AfterAlienBullets(r, env) ==
    IF r.returned THEN r.G
    ELSE WaveCheck(checkPowerUpCollisions(r.G, env), env)

\* checkCollisions(); log and untested are emptied when the pass begins
checkCollisions(G, env) ==
    AfterAlienBullets(
      AlienBulletsPass(
        PlayerBulletsPass(
          [G EXCEPT !.spatialGrid = RebuildGrid(G), !.log = <<>>,
                    !.untested = <<>>,
                    !.phases = Append(@, "collisions")], env),
        env),
      env)

\* checkGameEnd(): the aliens have reached the player
checkGameEnd(G, env) ==
    IF \E a \in Range(G.aliens) :
         G.pools.aliens.objs[a].y + AlienHeight >= G.player.y
    THEN gameOver(Phase(G, "gameEnd"), env)
    ELSE Phase(G, "gameEnd")

\* ------------------------------------------- the parts a run does not use
NoArray == [alias |-> FALSE, items |-> <<>>]
NoPos == [x |-> 0, y |-> 0, inserted |-> FALSE]
NoQuery == [x |-> 0, y |-> 0, results |-> <<>>]
NoRect == [x |-> 0, y |-> 0, width |-> 0, height |-> 0]
NoHit == [called |-> FALSE, ab |-> FALSE, ba |-> FALSE]
NoCall == [op |-> "new", obj |-> 0, wasActive |-> FALSE]
NoRandom == [chance |-> 999, pick |-> 0]

IdlePool ==
    /\ initialSize = 0
    /\ bullets = ObjectPool("bullets", 0, Env)
    /\ held = {}
    /\ snap = NoArray

IdleGrid ==
    /\ spatialGrid = SpatialGrid(CanvasWidth, CanvasHeight, CellSize)
    /\ entPos = [e \in 1..MaxEntities |-> NoPos]
    /\ nearby = NoQuery

IdleBoxes ==
    /\ rect1 = NoRect
    /\ rect2 = NoRect
    /\ overlap = NoHit

IdleGame ==
    /\ game = <<>>
    /\ now = 0
    /\ rand = NoRandom

\* ------------------------------------------------- pool calls as actions
InitPool(sizes) ==
    /\ initialSize \in sizes
    /\ bullets = ObjectPool("bullets", initialSize, Env)
    /\ held = {}
    /\ snap = NoArray
    /\ lastOp = NoCall
    /\ nops = 0
    /\ IdleGrid
    /\ IdleBoxes
    /\ IdleGame

PoolGet ==
    /\ nops < MaxOps
    /\ LET r == get(bullets, Env) IN
         /\ bullets' = r.p
         /\ held' = held \cup {r.obj}
         /\ lastOp' = [op |-> "get", obj |-> r.obj, wasActive |-> FALSE]
    /\ nops' = nops + 1
    /\ UNCHANGED <<initialSize, snap, gridVars, boxVars, gameVars>>

PoolRelease ==
    /\ nops < MaxOps
    /\ \E obj \in held :
         /\ bullets' = release(bullets, obj, Env)
         /\ lastOp' = [op |-> "release", obj |-> obj,
                      wasActive |-> SetHas(bullets.active, obj)]
    /\ nops' = nops + 1
    /\ UNCHANGED <<initialSize, held, snap, gridVars, boxVars, gameVars>>

PoolReleaseAll ==
    /\ nops < MaxOps
    /\ bullets' = releaseAll(bullets, Env)
    /\ lastOp' = [op |-> "releaseAll", obj |-> 0, wasActive |-> FALSE]
    /\ nops' = nops + 1
    /\ UNCHANGED <<initialSize, held, snap, gridVars, boxVars, gameVars>>

PoolGetActiveObjects ==
    /\ nops < MaxOps
    /\ snap' = getActiveObjects(bullets)
    /\ lastOp' = [op |-> "getActiveObjects", obj |-> 0, wasActive |-> FALSE]
    /\ nops' = nops + 1
    /\ UNCHANGED <<bullets, initialSize, held, gridVars, boxVars, gameVars>>

PoolOptimize ==
    /\ nops < MaxOps
    /\ bullets' = optimize(bullets, Env)
    /\ lastOp' = [op |-> "optimize", obj |-> 0, wasActive |-> FALSE]
    /\ nops' = nops + 1
    /\ UNCHANGED <<initialSize, held, snap, gridVars, boxVars, gameVars>>

\* get / release / releaseAll / getActiveObjects in any order
InitSpecPool == InitPool(0..MaxInitialSize)
NextPool == PoolGet \/ PoolRelease \/ PoolReleaseAll \/ PoolGetActiveObjects
SpecPool == InitSpecPool /\ [][NextPool]_vars

\* the same with optimize(), on pools of the default size as well
InitSpecPoolOpt == InitPool((0..MaxInitialSize) \cup {DefaultInitialSize})
NextPoolOpt == NextPool \/ PoolOptimize
SpecPoolOpt == InitSpecPoolOpt /\ [][NextPoolOpt]_vars

\* ------------------------------------------------- grid calls as actions
\* coordinates around the cell borders and the edges of the 800 x 600 extent
GridXs == {-10, 0, 50, 800}
GridYs == {-10, 0, 50, 600}

InitSpecGrid ==
    /\ IdlePool
    /\ IdleGrid
    /\ IdleBoxes
    /\ IdleGame
    /\ lastOp = NoCall
    /\ nops = 0

\* insert(entity) for the next entity not yet inserted since the last
\* clear(): the rebuild inserts every entity once
GridInsert ==
    /\ \E e \in 1..MaxEntities, x \in GridXs, y \in GridYs :
         /\ ~entPos[e].inserted
         /\ e > 1 => entPos[e - 1].inserted
         /\ spatialGrid' = insert(spatialGrid, e, x, y)
         /\ entPos' = [entPos EXCEPT ![e] = [x |-> x, y |-> y,
                                            inserted |-> TRUE]]
         /\ lastOp' = [op |-> "insert", obj |-> e, wasActive |-> FALSE]
    /\ nearby' = NoQuery
    /\ UNCHANGED <<nops, poolVars, boxVars, gameVars>>

GridGetNearbyEntities ==
    /\ \E x \in GridXs, y \in GridYs :
         nearby' = [x |-> x, y |-> y,
                    results |-> getNearbyEntities(spatialGrid, x, y)]
    /\ lastOp' = [op |-> "getNearbyEntities", obj |-> 0, wasActive |-> FALSE]
    /\ UNCHANGED <<spatialGrid, entPos, nops, poolVars, boxVars, gameVars>>

GridClear ==
    /\ spatialGrid' = clear(spatialGrid)
    /\ entPos' = [e \in 1..MaxEntities |-> NoPos]
    /\ lastOp' = [op |-> "clear", obj |-> 0, wasActive |-> FALSE]
    /\ nearby' = NoQuery
    /\ UNCHANGED <<nops, poolVars, boxVars, gameVars>>

NextGrid == GridInsert \/ GridGetNearbyEntities \/ GridClear
SpecGrid == InitSpecGrid /\ [][NextGrid]_vars

\* ------------------------------------------------ collision() on two boxes
Boxes == [x : 0..MaxCoord, y : 0..MaxCoord,
          width : 0..MaxSide, height : 0..MaxSide]

InitSpecBoxes ==
    /\ IdlePool
    /\ IdleGrid
    /\ IdleGame
    /\ rect1 \in Boxes
    /\ rect2 \in Boxes
    /\ overlap = NoHit
    /\ lastOp = NoCall
    /\ nops = 0

Collide ==
    /\ ~overlap.called
    /\ overlap' = [called |-> TRUE, ab |-> collision(rect1, rect2),
               ba |-> collision(rect2, rect1)]
    /\ lastOp' = [op |-> "collision", obj |-> 0, wasActive |-> FALSE]
    /\ UNCHANGED <<rect1, rect2, nops, poolVars, gridVars, gameVars>>

NextBoxes == Collide
SpecBoxes == InitSpecBoxes /\ [][NextBoxes]_vars

\* --------------------------------------------- shooting and its power-ups
\* the power-up types whose collection changes what shoot() produces
ShotTypes == {"splitShot", "guidedShot", "diamondShot", "chainLightning",
              "wingman"}
Oscillations == {0}
\* the wingman's firing interval, and longer than any power-up lasts
Delays == {WingmanFireRate, 20000}

InitSpecShots ==
    /\ IdlePool
    /\ IdleGrid
    /\ IdleBoxes
    /\ rand = NoRandom
    /\ now = StartTime
    /\ game = NewGame(Env)
    /\ lastOp = NoCall
    /\ nops = 0

GameStep(op, G) ==
    /\ nops < MaxSteps
    /\ game' = G
    /\ lastOp' = [op |-> op, obj |-> 0, wasActive |-> FALSE]
    /\ nops' = nops + 1
    /\ UNCHANGED <<now, rand, poolVars, gridVars, boxVars>>

\* a click on the start button, in any state of the game
StartGame ==
    /\ game.state.current \in {"menu", "playing", "gameOver"}
    /\ GameStep("startGame", startGame(game, Env))

\* update() reaches updatePowerUpTimers()
UpdatePowerUpTimers ==
    /\ game.state.current = "playing"
    /\ GameStep("updatePowerUpTimers", updatePowerUpTimers(game, Env))

\* time passes between two frames
Tick ==
    /\ nops < MaxSteps
    /\ \E d \in Delays : now' = now + d
    /\ lastOp' = [op |-> "tick", obj |-> 0, wasActive |-> FALSE]
    /\ nops' = nops + 1
    /\ UNCHANGED <<game, rand, poolVars, gridVars, boxVars>>

\* the player picks up an item of the given type
ApplyPowerUp ==
    /\ game.state.current = "playing"
    /\ \E type \in ShotTypes : GameStep(type, applyPowerUp(game, type, Env))

\* handleShooting() lets a shot through
Shoot ==
    /\ game.state.current = "playing"
    /\ GameStep("shoot", shoot(game, Env))

\* update() reaches updateWingman()
UpdateWingman ==
    /\ game.state.current = "playing"
    /\ game.wingman.active
    /\ \E o \in Oscillations :
         GameStep("updateWingman", updateWingman(game, o, Env))

NextShots ==
    \/ StartGame
    \/ ApplyPowerUp
    \/ Shoot
    \/ UpdateWingman
    \/ UpdatePowerUpTimers
    \/ Tick
SpecShots == InitSpecShots /\ [][NextShots]_vars

\* ------------------------------------------------- one collision pass
\* A frame in the middle of wave 1: the formation has dropped drops times;
\* player bullets in flight have just come, from below or through the gap
\* between two columns, one step into the bottom row or the top row; an
\* alien bullet or a falling item may have reached the player.
FormationDrops == {0, 1}
VolleyRows == {0, 4}
BulletXs == {98, 120, 145}
ShotKinds == {"plain", "splitShot", "diamondShot", "chainLightning"}
ShotChoices == [x : BulletXs, kind : ShotKinds]
\* no bullet, one bullet, or two of which the second is in mid column
Volleys == {<<>>} \cup {<<s>> : s \in ShotChoices}
             \cup {<<s, t>> : s \in ShotChoices,
                              t \in [x : {120}, kind : ShotKinds]}
Hazards == {"none", "hit", "lastLife", "shielded", "item"}
Draws == {NoRandom, [chance |-> 0, pick |-> 0]}

\* updateAliens(): the drop of the whole formation, drops times
DropFormation(G, drops) ==
    [G EXCEPT !.pools.aliens.objs =
                [i \in 1..Len(@) |->
                   IF SetHas(G.aliens, i)
                   THEN [@[i] EXCEPT !.y = @ + drops * DropDistance]
                   ELSE @[i]]]

\* the lower edge of the aliens of the given row
RowBottom(G, row) ==
    LET inRow == {i \in 1..Len(G.aliens) :
                    G.pools.aliens.objs[G.aliens[i]].row = row}
    IN G.pools.aliens.objs[G.aliens[CHOOSE i \in inRow : TRUE]].y
         + AlienHeight

\* shoot() and the frames since: bullets of the given kinds that are one
\* step into the given row
RECURSIVE PlaceBullets(_, _, _, _, _)
PlaceBullets(G, volley, row, i, env) ==
    IF i > Len(volley) THEN G
    ELSE LET r == get(G.pools.bullets, env)
             b0 == BulletReset(r.p.objs[r.obj], volley[i].x,
                               RowBottom(G, row) - BulletSpeed, -BulletSpeed)
             bullet == IF volley[i].kind = "plain" THEN b0
                       ELSE [b0 EXCEPT ![volley[i].kind] = TRUE]
         IN PlaceBullets(
              [G EXCEPT !.pools.bullets = [r.p EXCEPT !.objs[r.obj] = bullet]],
              volley, row, i + 1, env)

\* updateAliens(): the speeds of alien bullets, 4 + wave * 0.3 and 3 + wave * 0.2, in tenths of a pixel a frame
ShooterBulletSpeed(G) == 10 * AlienBulletSpeed + 3 * G.state.wave
NormalBulletSpeed(G) == 10 * NormalAlienBulletSpeed + 2 * G.state.wave

\* updateAliens(): an alien bullet that has come down onto the player, who
\* has three lives, one life or a shield
PlaceThreat(G, hazard, env) ==
    LET r == get(G.pools.alienBullets, env)
        bullet == BulletReset(r.p.objs[r.obj], G.player.x + PlayerWidth \div 2,
                              G.player.y, ShooterBulletSpeed(G))
        G1 == [G EXCEPT
                 !.pools.alienBullets = [r.p EXCEPT !.objs[r.obj] = bullet]]
    IN IF hazard = "hit" THEN G1
       ELSE IF hazard = "lastLife" THEN [G1 EXCEPT !.state.lives = 1]
       ELSE IF hazard = "shielded" THEN applyPowerUp(G1, "shield", env)
       ELSE G

\* spawnPowerUpIfAppropriate() and the frames since: an item that has fallen
\* onto the player; it was spawned at another value of Math.random() than
\* the frame's, one that selects the third of PowerUp.types
PlaceItem(G, hazard, env) ==
    LET r == get(G.pools.powerUps, env)
        item == ItemResetIn(r.p.objs[r.obj], G.player.x, G.player.y,
                            G.powerUps,
                            [now |-> env.now,
                             rand |-> [chance |-> env.rand.chance,
                                       pick |-> 150]])
    IN IF hazard = "item"
       THEN [G EXCEPT !.pools.powerUps = [r.p EXCEPT !.objs[r.obj] = item]]
       ELSE G

\* the Game object when wave 1 begins
Started(env) == startGame(NewGame(env), env)

\* the Game object in such a frame
MidWave(G, drops, volley, row, hazard, env) ==
    PlaceItem(
      PlaceThreat(
        PlaceBullets(DropFormation(G, drops), volley, row, 1, env),
        hazard, env),
      hazard, env)

InitSpecCollide ==
    /\ rand \in Draws
    /\ now = StartTime
    /\ IdlePool
    /\ IdleGrid
    /\ IdleBoxes
    /\ \E G \in {Started(Env)} :
         \E drops \in FormationDrops, volley \in Volleys, row \in VolleyRows,
            hazard \in Hazards :
           game = MidWave(G, drops, volley, row, hazard, Env)
    /\ lastOp = NoCall
    /\ nops = 0

\* update() reaches checkCollisions()
CheckCollisions ==
    /\ game.state.current = "playing"
    /\ nops < MaxPasses
    /\ game' = checkCollisions(game, Env)
    /\ lastOp' = [op |-> "checkCollisions", obj |-> 0, wasActive |-> FALSE]
    /\ nops' = nops + 1
    /\ UNCHANGED <<now, rand, poolVars, gridVars, boxVars>>

NextCollide == CheckCollisions
SpecCollide == InitSpecCollide /\ [][NextCollide]_vars

\* ------------------------------------------------- the motion of a frame
\* Player.update(keys, canvasWidth, mouseX, useMouseControl): mouse.control
\* is always true, so the ship goes 0.15 of the way to the pointer; exact in
\* whole pixels when the way is a multiple of 20
PlayerUpdate(pl, input) ==
    LET targetX == input.mouseX - PlayerWidth \div 2
        x == pl.x + (3 * (targetX - pl.x)) \div 20
    IN [pl EXCEPT !.x = Max(0, Min(CanvasWidth - PlayerWidth, x))]

\* handleShooting(); tempFireRate, set by the mouse wheel, is null
handleShooting(G, input, env) ==
    LET shouldShoot == "Space" \in input.keys \/ input.mousePressed
        fireRate == IF G.powerUps.rapidFire.active THEN RapidFireRate
                    ELSE PlayerFireRate
    IN IF shouldShoot /\ env.now - G.input.lastShot > fireRate
       THEN [shoot(G, env) EXCEPT !.input.lastShot = env.now]
       ELSE G

\* Bullet.update() of a bullet of the player: whole pixels
BulletUpdate(b) == [b EXCEPT !.y = @ + b.speed, !.x = @ + b.speedX]

\* Bullet.update() of an alien bullet: this.y += this.speed, in tenths
AlienBulletUpdate(b) ==
    [b EXCEPT !.y = (10 * b.y + b.sub + b.speed) \div 10,
              !.sub = (10 * b.y + b.sub + b.speed) % 10,
              !.x = @ + b.speedX]

\* updateBullets(): one bullet of the player; the turn of a guided bullet
\* toward the closest alien (less than a third of a pixel a frame) is left
\* out
StepPlayerBullet(G, id, env) ==
    LET moved == BulletUpdate(G.pools.bullets.objs[id])
    IN [G EXCEPT
          !.pools.bullets =
              IF moved.y < 0
              THEN release([@ EXCEPT !.objs[id] = moved], id, env)
              ELSE [@ EXCEPT !.objs[id] = moved]]

\* the forEach of updateBullets() over the player's bullets; a bullet that
\* has yet to move is still in the pool's active list
RECURSIVE PlayerBulletsMove(_, _, _, _)
PlayerBulletsMove(G, activeBullets, i, env) ==
    IF i > Len(activeBullets) \/ G.pools.bullets.active = <<>> THEN G
    ELSE PlayerBulletsMove(StepPlayerBullet(G, activeBullets[i], env),
                           activeBullets, i + 1, env)

\* updateBullets(): bullet.speedY *= 0.3 on a field that no bullet has and
\* update() does not read
TimeWarped(G, b) ==
    IF G.powerUps.timeWarp.active THEN [b EXCEPT !.speedY = "NaN"] ELSE b

\* updateBullets(): one alien bullet; y > canvas.height with y in tenths
StepAlienBullet(G, id, env) ==
    LET moved == AlienBulletUpdate(TimeWarped(G, G.pools.alienBullets.objs[id]))
    IN [G EXCEPT
          !.pools.alienBullets =
              IF moved.y > CanvasHeight
                 \/ (moved.y = CanvasHeight /\ moved.sub > 0)
              THEN release([@ EXCEPT !.objs[id] = moved], id, env)
              ELSE [@ EXCEPT !.objs[id] = moved]]

\* the forEach of updateBullets() over the alien bullets; a bullet that has
\* yet to move is still in the pool's active list
RECURSIVE AlienBulletsMove(_, _, _, _)
AlienBulletsMove(G, activeAlienBullets, i, env) ==
    IF i > Len(activeAlienBullets) \/ G.pools.alienBullets.active = <<>> THEN G
    ELSE AlienBulletsMove(StepAlienBullet(G, activeAlienBullets[i], env),
                          activeAlienBullets, i + 1, env)

\* updateBullets(): the bullets of the player
updatePlayerBullets(G, env) ==
    PlayerBulletsMove(G, getActiveObjects(G.pools.bullets).items, 1, env)

\* updateBullets()
updateBullets(G, env) ==
    AlienBulletsMove(updatePlayerBullets(G, env),
                     getActiveObjects(G.pools.alienBullets).items, 1, env)

\* updateAliens(): currentSpeed in twentieths of a pixel a frame, speed * 0.3
\* in slow motion; alienMovement.speed is in half pixels
currentSpeed(G) ==
    IF G.powerUps.slowMotion.active THEN 3 * G.alienMovement.speed
    ELSE 10 * G.alienMovement.speed

\* Alien.update(direction, speed)
AlienUpdate(a, direction, speed) ==
    [a EXCEPT !.x = (20 * a.x + a.sub + direction * speed) \div 20,
              !.sub = (20 * a.x + a.sub + direction * speed) % 20]

\* updateAliens(): alien.x <= 0 || alien.x >= canvas.width - alien.width
AtBoundary(a) ==
    \/ 20 * a.x + a.sub <= 0
    \/ a.x >= CanvasWidth - AlienWidth

\* updateAliens(): an alien bullet leaves the given alien
AlienFires(G, id, speed, env) ==
    LET r == get(G.pools.alienBullets, env)
        alien == G.pools.aliens.objs[id]
        bullet == BulletReset(r.p.objs[r.obj], alien.x + AlienWidth \div 2,
                              alien.y + AlienHeight, speed)
    IN [G EXCEPT !.pools.alienBullets = [r.p EXCEPT !.objs[r.obj] = bullet]]

\* updateAliens(): the timer of a shooter, 16 ms a frame
ShooterTurn(G, id, env) ==
    LET alien == G.pools.aliens.objs[id]
    IN IF alien.type # "shooter" THEN G
       ELSE IF alien.shootTimer + 16 >= alien.shootInterval
       THEN [AlienFires(G, id, ShooterBulletSpeed(G), env) EXCEPT
               !.pools.aliens.objs[id].shootTimer = 0,
               !.pools.aliens.objs[id].shootInterval =
                   1000 + 2 * env.rand.chance]
       ELSE [G EXCEPT !.pools.aliens.objs[id].shootTimer = @ + 16]

\* updateAliens(): Math.random() < 0.001 + wave * 0.0002 for a normal alien
NormalTurn(G, id, env) ==
    IF G.pools.aliens.objs[id].type = "normal"
       /\ RandomBelow10k(10 + 2 * G.state.wave, env)
    THEN AlienFires(G, id, NormalBulletSpeed(G), env)
    ELSE G

\* updateAliens(): the body of the first forEach for one alien
AlienTurn(G, id, env) ==
    NormalTurn(
      ShooterTurn(
        [G EXCEPT !.pools.aliens.objs[id] =
                      AlienUpdate(@, G.alienMovement.direction,
                                  currentSpeed(G))],
        id, env),
      id, env)

RECURSIVE AliensMove(_, _, _)
AliensMove(G, i, env) ==
    IF i > Len(G.aliens) THEN G
    ELSE AliensMove(AlienTurn(G, G.aliens[i], env), i + 1, env)

\* updateAliens(): shouldDrop once the first forEach is over
shouldDrop(G) == \E a \in Range(G.aliens) : AtBoundary(G.pools.aliens.objs[a])

AliensDrop_perAlien(G, env) ==
    LET touching == Cardinality({a \in Range(G.aliens) :
                                   AtBoundary(G.pools.aliens.objs[a])})
    IN IF ~shouldDrop(G) THEN G
       ELSE [G EXCEPT
               !.alienMovement.direction = -@,
               !.pools.aliens.objs =
                   [i \in 1..Len(@) |->
                      IF SetHas(G.aliens, i)
                      THEN [@[i] EXCEPT !.y = @ + touching * DropDistance]
                      ELSE @[i]]]

\* updateAliens(): if (shouldDrop) the direction turns and every alien of
\* the formation drops
AliensDrop(G, env) ==
    IF ~shouldDrop(G) THEN [G EXCEPT !.dropped = FALSE]
    ELSE [G EXCEPT
            !.dropped = TRUE,
            !.alienMovement.direction = -@,
            !.pools.aliens.objs =
                [i \in 1..Len(@) |->
                   IF SetHas(G.aliens, i)
                   THEN [@[i] EXCEPT !.y = @ + DropDistance]
                   ELSE @[i]]]

\* updateAliens()
updateAliens(G, env) == AliensDrop(AliensMove(G, 1, env), env)

\* updatePowerUps(): PowerUp.update() and the release below the canvas
StepItem(G, id, env) ==
    LET moved == [G.pools.powerUps.objs[id] EXCEPT !.y = @ + ItemSpeed]
    IN [G EXCEPT
          !.pools.powerUps =
              IF moved.y > CanvasHeight
              THEN release([@ EXCEPT !.objs[id] = moved], id, env)
              ELSE [@ EXCEPT !.objs[id] = moved]]

\* the forEach of updatePowerUps(); an item that has yet to move is still
\* in the pool's active list
RECURSIVE ItemsMove(_, _, _, _)
ItemsMove(G, activePowerUps, i, env) ==
    IF i > Len(activePowerUps) \/ G.pools.powerUps.active = <<>> THEN G
    ELSE ItemsMove(StepItem(G, activePowerUps[i], env),
                   activePowerUps, i + 1, env)

\* updatePowerUps()
updatePowerUps(G, env) ==
    ItemsMove(G, getActiveObjects(G.pools.powerUps).items, 1, env)

\* --------------------------------------------------- frames of motion
\* A frame of wave 1 in which the formation, whose columns begin at x = 100
\* and end at x = 600, has come within two pixels of the right or the left
\* boundary (a formation on the left has dropped once, at the right); the
\* outer columns are whole or shot down to their top alien; the player has
\* picked up slowMotion, timeWarp or nothing.
Shifts == {-99, -98, 158, 159}
Losses == {0, 4}
Collected == {"none", "slowMotion", "timeWarp"}

\* updateAliens() over the frames before: the formation dx to the right
ShiftFormation(G, dx) ==
    [G EXCEPT !.pools.aliens.objs =
                [i \in 1..Len(@) |->
                   IF SetHas(G.aliens, i) THEN [@[i] EXCEPT !.x = @ + dx]
                   ELSE @[i]],
              !.alienMovement.direction = IF dx < 0 THEN -1 ELSE 1]

\* checkCollisions() over the frames before: the aliens of the outer columns
\* in the lowest rows, losses of them in each column, are out of this.aliens
ThinFormation(G, losses) ==
    [G EXCEPT !.aliens =
                SelectSeq(@, LAMBDA a :
                    ~ /\ G.pools.aliens.objs[a].x \in {100, 600}
                      /\ G.pools.aliens.objs[a].row > 4 - losses)]

\* the Game object in such a frame
NearBoundary(G, dx, losses, type, env) ==
    ShiftFormation(
      DropFormation(
        ThinFormation(IF type = "none" THEN G ELSE applyPowerUp(G, type, env),
                      losses),
        IF dx < 0 THEN 1 ELSE 0),
      dx)

InitSpecMove ==
    /\ rand \in Draws
    /\ now = StartTime
    /\ IdlePool
    /\ IdleGrid
    /\ IdleBoxes
    /\ \E G \in {Started(Env)} :
         \E dx \in Shifts, losses \in Losses, type \in Collected :
           game = NearBoundary(G, dx, losses, type, Env)
    /\ lastOp = NoCall
    /\ nops = 0

\* update() reaches updateBullets()
UpdateBullets ==
    /\ game.state.current = "playing"
    /\ GameStep("updateBullets", updateBullets(game, Env))

\* update() reaches updateAliens()
UpdateAliens ==
    /\ game.state.current = "playing"
    /\ GameStep("updateAliens", updateAliens(game, Env))

NextMove ==
    \/ UpdateBullets
    \/ UpdateAliens
SpecMove == InitSpecMove /\ [][NextMove]_vars

\* ------------------------------------------------------ frames of a game
\* the items the player picks up
PlayTypes == {"multiplier", "shield", "bomb", "rapidFire"}
\* a frame comes 16 ms after the last one, or after a pause as long as the
\* multiplier lasts; by then a player bullet may have come one step into the
\* top row, or an alien bullet down onto the player
FramePlans ==
    {[delay |-> 16, arrival |-> "none"],
     [delay |-> 16, arrival |-> "shot"],
     [delay |-> 16, arrival |-> "threat"],
     [delay |-> PowerUpConfig.multiplier.duration, arrival |-> "none"]}

\* the aliens of the top row that are in the formation
TopRow(G) == {a \in Range(G.aliens) : G.pools.aliens.objs[a].row = 0}

\* handleShooting(), updateBullets() and updateAliens() over the frames
\* before: a bullet of the player is one step into the leftmost alien of the
\* top row, or an alien bullet is on the player
Arrive(G, arrival, env) ==
    IF arrival = "shot" /\ TopRow(G) # {}
    THEN PlaceBullets(
           G,
           << [x |-> G.pools.aliens.objs[
                       CHOOSE a \in TopRow(G) :
                         \A c \in TopRow(G) :
                           G.pools.aliens.objs[a].x <= G.pools.aliens.objs[c].x
                     ].x + AlienWidth \div 2,
               kind |-> "plain"] >>,
           0, 1, env)
    ELSE IF arrival = "threat" THEN PlaceThreat(G, "hit", env)
    ELSE G

\* the pointer is over the middle of the ship and nothing is pressed
AtRest(G) ==
    [keys |-> {}, mousePressed |-> FALSE,
     mouseX |-> G.player.x + PlayerWidth \div 2]

\* update(): player.update(), updateWingman(), handleShooting(),
\* updateBullets(), updateAliens() and updatePowerUps(); stars, particles
\* and electrical effects are drawing only
motion(G, input, env) ==
    updatePowerUps(
      updateAliens(
        updateBullets(
          handleShooting(
            updateWingman([G EXCEPT !.player = PlayerUpdate(@, input)],
                          0, env),
            input, env),
          env),
        env),
      env)

update_motionFirst(G, input, arrival, env) ==
    IF G.state.current # "playing" THEN G
    ELSE checkGameEnd(
           checkCollisions(
             Arrive(
               updatePowerUpTimers(
                 Phase(motion(Phase([G EXCEPT !.phases = <<>>], "motion"),
                              input, env),
                       "timers"),
                 env),
               arrival, env),
             env),
           env)

\* update(): nothing but screen shake and splash labels unless the game is
\* playing; then the timers, the motion, what has arrived of the frames
\* before, the collisions and the end of the game
update(G, input, arrival, env) ==
    IF G.state.current # "playing" THEN G
    ELSE checkGameEnd(
           checkCollisions(
             Arrive(
               motion(
                 Phase(updatePowerUpTimers(
                         Phase([G EXCEPT !.phases = <<>>], "timers"), env),
                       "motion"),
                 input, env),
               arrival, env),
             env),
           env)

InitSpecPlay ==
    /\ IdlePool
    /\ IdleGrid
    /\ IdleBoxes
    /\ rand = NoRandom
    /\ now = StartTime
    /\ game = NewGame(Env)
    /\ lastOp = NoCall
    /\ nops = 0

PlayStep(op, G) ==
    /\ nops < MaxFrames
    /\ game' = G
    /\ lastOp' = [op |-> op, obj |-> 0, wasActive |-> FALSE]
    /\ nops' = nops + 1
    /\ UNCHANGED <<rand, poolVars, gridVars, boxVars>>

\* a click on the start button, in any state of the game
PlayStart ==
    /\ game.state.current \in {"menu", "playing", "gameOver"}
    /\ PlayStep("startGame", startGame(game, Env))
    /\ UNCHANGED now

\* the player picks up an item of the given type
PlayCollect ==
    /\ game.state.current = "playing"
    /\ \E type \in PlayTypes : PlayStep(type, applyPowerUp(game, type, Env))
    /\ UNCHANGED now

\* the game loop calls update() at a later time
Update ==
    /\ game.state.current = "playing"
    /\ \E plan \in FramePlans :
         /\ now' = now + plan.delay
         /\ PlayStep("update",
                     update(game, AtRest(game), plan.arrival,
                            [now |-> now + plan.delay, rand |-> rand]))

NextPlay ==
    \/ PlayStart
    \/ PlayCollect
    \/ Update
SpecPlay == InitSpecPlay /\ [][NextPlay]_vars

\* ------------------------------------------- the game loop and its events
aliensToDestroy_all(G) == Len(G.aliens)

\* useBomb(): Math.floor(this.aliens.length * 0.5)
aliensToDestroy(G) == Len(G.aliens) \div 2

\* useBomb(): the distance of the alien's centre from the player's is below
\* explosionRadius; compared in twentieths of a pixel, squared
InBlast(G, alien) ==
    (20 * (alien.x - G.player.x) + alien.sub) * (20 * (alien.x - G.player.x) + alien.sub)
      + 400 * (alien.y - G.player.y) * (alien.y - G.player.y)
    < 400 * ExplosionRadius * ExplosionRadius

\* useBomb(): the alien at index i explodes and leaves this.aliens
BombDestroys(G, i, env) ==
    [createExplosion(G,
                     G.pools.aliens.objs[G.aliens[i]].x + AlienWidth \div 2,
                     G.pools.aliens.objs[G.aliens[i]].y + AlienHeight \div 2,
                     TRUE, env)
       EXCEPT !.aliens = RemoveAt(@, i)]

\* useBomb(): the loop over this.aliens from the last index down; r.G is the
\* game and r.aliensDestroyed the count so far
RECURSIVE BlastLoop(_, _, _, _)
BlastLoop(r, i, quota, env) ==
    IF i < 1 \/ r.aliensDestroyed >= quota THEN r
    ELSE IF InBlast(r.G, r.G.pools.aliens.objs[r.G.aliens[i]])
    THEN BlastLoop([G |-> BombDestroys(r.G, i, env),
                    aliensDestroyed |-> r.aliensDestroyed + 1],
                   i - 1, quota, env)
    ELSE BlastLoop(r, i - 1, quota, env)

\* useBomb(): the while loop over random indices
RECURSIVE RandomLoop(_, _, _)
RandomLoop(r, quota, env) ==
    IF r.aliensDestroyed >= quota \/ Len(r.G.aliens) = 0 THEN r
    ELSE RandomLoop(
           [G |-> BombDestroys(r.G, RandomIndex(Len(r.G.aliens), env) + 1,
                               env),
            aliensDestroyed |-> r.aliensDestroyed + 1],
           quota, env)

\* useBomb(): the score, the explosion at the player and the bomb count
BombSpent(r, env) ==
    [createExplosion(
       updateUI([r.G EXCEPT !.state.score =
                                @ + r.aliensDestroyed * BombScore
                                      * Multiplier(r.G)]),
       r.G.player.x + PlayerWidth \div 2, r.G.player.y + PlayerHeight \div 2,
       TRUE, env)
       EXCEPT !.bomb = [count |-> @.count - 1,
                        ready |-> IF @.count - 1 <= 0 THEN FALSE ELSE @.ready]]

\* useBomb(): the check for wave completion
BombWaveCheck(G, env) == IF Len(G.aliens) = 0 THEN nextWave(G, env) ELSE G

\* useBomb()
useBomb(G, env) ==
    IF G.bomb.count <= 0 THEN G
    ELSE BombWaveCheck(
           BombSpent(
             RandomLoop(
               BlastLoop([G |-> G, aliensDestroyed |-> 0], Len(G.aliens),
                         aliensToDestroy(G), env),
               aliensToDestroy(G), env),
             env),
           env)

\* togglePause()
togglePause(G) ==
    IF G.state.current = "playing" THEN [G EXCEPT !.state.current = "paused"]
    ELSE IF G.state.current = "paused"
    THEN [G EXCEPT !.state.current = "playing"]
    ELSE G

\* the keydown listener, for the keys that change the game
keydown(G, code, env) ==
    IF code = "KeyB"
    THEN (IF G.bomb.ready /\ G.bomb.count > 0 THEN useBomb(G, env) ELSE G)
    ELSE IF code = "Escape"
    THEN (IF G.state.current = "playing" THEN togglePause(G) ELSE G)
    ELSE G

\* the contextmenu listener of the canvas
contextmenu(G, env) ==
    IF G.state.current = "playing" /\ G.bomb.ready /\ G.bomb.count > 0
    THEN useBomb(G, env)
    ELSE G

\* the time requestAnimationFrame passes: milliseconds since the page loaded
FrameTime(env) == env.now - StartTime

gameLoop_always(G, input, arrival, env) ==
    [update(G, input, arrival, env) EXCEPT
       !.lastFrameTime = FrameTime(env),
       !.executed = Append(@, FrameTime(env))]

\* gameLoop(currentTime): deltaTime >= 1000 / 60 for whole milliseconds;
\* !this.lastFrameTime holds for 0 as for undefined
gameLoop(G, input, arrival, env) ==
    LET last == IF G.lastFrameTime = 0 THEN FrameTime(env)
                ELSE G.lastFrameTime
    IN IF TargetFPS * (FrameTime(env) - last) >= 1000
       THEN [update(G, input, arrival, env) EXCEPT
               !.lastFrameTime = FrameTime(env),
               !.executed = Append(@, FrameTime(env))]
       ELSE [G EXCEPT !.lastFrameTime = last]

\* The events of a session: the start button, items picked up, the pause
\* button and the keys Escape and B, a right click, and the callbacks of
\* requestAnimationFrame, which come half a frame, a frame or (the page was
\* hidden) ten seconds after the one before.
LoopTypes == {"bomb", "multiplier", "slowMotion"}
Keys == {"KeyB", "Escape"}
Callbacks ==
    {[delay |-> 8, arrival |-> "none"],
     [delay |-> 17, arrival |-> "none"],
     [delay |-> 17, arrival |-> "threat"],
     [delay |-> PowerUpConfig.multiplier.duration, arrival |-> "none"]}

InitSpecLoop ==
    /\ IdlePool
    /\ IdleGrid
    /\ IdleBoxes
    /\ rand = NoRandom
    /\ now = StartTime
    /\ game = NewGame(Env)
    /\ lastOp = NoCall
    /\ nops = 0

\* a click on the start button, in any state of the game
LoopStart ==
    /\ PlayStep("startGame", startGame(game, Env))
    /\ UNCHANGED now

\* the player picks up an item of the given type
LoopCollect ==
    /\ game.state.current = "playing"
    /\ \E type \in LoopTypes : PlayStep(type, applyPowerUp(game, type, Env))
    /\ UNCHANGED now

\* a click on the pause button
PauseBtn ==
    /\ PlayStep("togglePause", togglePause(game))
    /\ UNCHANGED now

\* a key goes down
KeyDown ==
    /\ \E code \in Keys : PlayStep(code, keydown(game, code, Env))
    /\ UNCHANGED now

\* a right click on the canvas
ContextMenu ==
    /\ PlayStep("contextmenu", contextmenu(game, Env))
    /\ UNCHANGED now

\* requestAnimationFrame calls gameLoop() at a later time
Callback ==
    \E cb \in Callbacks :
      /\ now' = now + cb.delay
      /\ PlayStep("gameLoop",
                  gameLoop(game, AtRest(game), cb.arrival,
                           [now |-> now + cb.delay, rand |-> rand]))

NextLoop ==
    \/ LoopStart
    \/ LoopCollect
    \/ PauseBtn
    \/ KeyDown
    \/ ContextMenu
    \/ Callback
SpecLoop == InitSpecLoop /\ [][NextLoop]_vars

\* ----------------------------------------------------- the end of a wave
\* animateZapSequence(): the callback of the next timer of the sequence s;
\* splice(zap.index, 1) takes out whatever alien is at that index now, and
\* none if the index is past the end
ZapFires(G, s) ==
    LET zap == G.zaps[s].sequence[G.zaps[s].fired + 1]
        inArray == zap.index < Len(G.aliens)
    IN [G EXCEPT
          !.state.score =
              @ + (4 - G.pools.aliens.objs[zap.alien].row) * 10 * Multiplier(G),
          !.aliens = IF inArray THEN RemoveAt(@, zap.index + 1) ELSE @,
          !.zaps[s] =
              [@ EXCEPT
                 !.fired = @ + 1,
                 !.awards = @ + 1,
                 !.removed = IF inArray
                             THEN Append(@, G.aliens[zap.index + 1]) ELSE @,
                 !.sequence =
                     [j \in 1..Len(@) |->
                        IF j > G.zaps[s].fired + 1 /\ @[j].index > zap.index
                        THEN [@[j] EXCEPT !.index = @ - 1]
                        ELSE @[j]]]]

\* A frame late in wave 1, 2 or 4: of the formation the first aliens of the
\* top row are left, and bullets of the player have just come one step into
\* that row: none, a plain one under the first alien, a plain one under every
\* alien, or a chaining one under the second.
Waves == {1, 2, 4}
Remaining == {1, 2, 4, 5}
Salvos == {"none", "first", "all", "chain"}

\* checkCollisions() over the frames before: the last alien of a wave is
\* destroyed and the next wave begins, until the given wave is reached
RECURSIVE AtWave(_, _, _)
AtWave(G, wave, env) ==
    IF G.state.wave >= wave THEN G
    ELSE AtWave(CHOOSE next \in {nextWave([G EXCEPT !.aliens = <<>>], env)} :
                  TRUE,
                wave, env)

\* checkCollisions() over the frames before: all but the first n aliens are
\* out of this.aliens
Survivors(G, n) == [G EXCEPT !.aliens = SubSeq(@, 1, n)]

\* the bullets of the salvo
Salvo(G, salvo) ==
    LET under(i) == G.pools.aliens.objs[G.aliens[i]].x + AlienWidth \div 2
    IN IF salvo = "first" THEN << [x |-> under(1), kind |-> "plain"] >>
       ELSE IF salvo = "all"
       THEN [i \in 1..Len(G.aliens) |-> [x |-> under(i), kind |-> "plain"]]
       ELSE IF salvo = "chain"
       THEN << [x |-> under(Min(2, Len(G.aliens))),
                kind |-> "chainLightning"] >>
       ELSE <<>>

\* the Game object in such a frame
LateWave(G, wave, n, salvo, env) ==
    PlaceBullets(Survivors(AtWave(G, wave, env), n),
                 Salvo(Survivors(AtWave(G, wave, env), n), salvo), 0, 1, env)

InitSpecWave ==
    /\ rand \in Draws
    /\ now = StartTime
    /\ IdlePool
    /\ IdleGrid
    /\ IdleBoxes
    /\ \E G \in {Started(Env)} :
         \E wave \in Waves, n \in Remaining, salvo \in Salvos :
           game = LateWave(G, wave, n, salvo, Env)
    /\ lastOp = NoCall
    /\ nops = 0

\* a timer of animateZapSequence() runs out
ZapTimer ==
    /\ \E s \in DOMAIN game.zaps :
         /\ game.zaps[s].fired < Len(game.zaps[s].sequence)
         /\ game' = ZapFires(game, s)
    /\ lastOp' = [op |-> "zap", obj |-> 0, wasActive |-> FALSE]
    /\ UNCHANGED <<nops, now, rand, poolVars, gridVars, boxVars>>

NextWave ==
    \/ CheckCollisions
    \/ ZapTimer
SpecWave == InitSpecWave /\ [][NextWave]_vars

\* ------------------------------------------------------------ the bomb
\* A frame of wave 1 in which the player, with or without the multiplier,
\* holds no, one or two bombs; the formation is whole or its last aliens,
\* those at the right of the bottom row, are left (none when zap timers have
\* just taken the last ones), and it has not dropped or has dropped twelve
\* times, which brings the bottom row within the bomb's radius.
BombDrops == {0, 12}
BombRemaining == {0, 1, 2, 3, 55}
Charges == {0, 1, 2}
BombDraws == Draws \cup {[chance |-> 999, pick |-> 500]}

\* checkCollisions() over the frames before: all but the last n aliens are
\* out of this.aliens
Stragglers(G, n) == [G EXCEPT !.aliens = SubSeq(@, Len(@) - n + 1, Len(@))]

\* applyPowerUp('bomb'), charges times
RECURSIVE Armed(_, _, _)
Armed(G, charges, env) ==
    IF charges = 0 THEN G
    ELSE Armed(applyPowerUp(G, "bomb", env), charges - 1, env)

\* the Game object in such a frame
BombFrame(G, drops, n, charges, doubled, env) ==
    Armed(IF doubled
          THEN applyPowerUp(Stragglers(DropFormation(G, drops), n),
                            "multiplier", env)
          ELSE Stragglers(DropFormation(G, drops), n),
          charges, env)

InitSpecBomb ==
    /\ rand \in BombDraws
    /\ now = StartTime
    /\ IdlePool
    /\ IdleGrid
    /\ IdleBoxes
    /\ \E G \in {Started(Env)} :
         \E drops \in BombDrops, n \in BombRemaining, charges \in Charges,
            doubled \in BOOLEAN :
           game = BombFrame(G, drops, n, charges, doubled, Env)
    /\ lastOp = NoCall
    /\ nops = 0

\* the B key goes down
KeyB ==
    /\ PlayStep("KeyB", keydown(game, "KeyB", Env))
    /\ UNCHANGED now

NextBomb ==
    \/ KeyB
    \/ ContextMenu
SpecBomb == InitSpecBomb /\ [][NextBomb]_vars

\* ------------------------------------------- collections and their expiry
\* the timed types by their place in PowerUp.types
TimedAt == {i \in 1..Len(PowerUpTypes) :
              PowerUpConfig[PowerUpTypes[i]].type = "timed"}
\* the types the player picks up again later in the game
Again == {"wingman", "multiplier"}
\* a frame comes 16 ms after the last one, or after a pause of 5 s
SweepDelays == {16, 5000}

\* a game just started in which the player has picked up a timed item
InitSpecSweep ==
    /\ IdlePool
    /\ IdleGrid
    /\ IdleBoxes
    /\ rand = NoRandom
    /\ now = StartTime
    /\ \E i \in TimedAt :
         game = applyPowerUp(Started(Env), PowerUpTypes[i], Env)
    /\ lastOp = NoCall
    /\ nops = 0

SweepStep(op, G) ==
    /\ nops < MaxSteps
    /\ game' = G
    /\ lastOp' = [op |-> op, obj |-> 0, wasActive |-> FALSE]
    /\ nops' = nops + 1
    /\ UNCHANGED <<rand, poolVars, gridVars, boxVars>>

\* update() reaches updatePowerUpTimers() in a later frame
Sweep ==
    /\ game.state.current = "playing"
    /\ \E d \in SweepDelays :
         /\ now' = now + d
         /\ SweepStep("updatePowerUpTimers",
                      updatePowerUpTimers(game, [now |-> now + d,
                                                 rand |-> rand]))

\* the player picks up an item of a type that is not active
CollectAgain ==
    /\ game.state.current = "playing"
    /\ \E type \in Again :
         /\ ~game.powerUps[type].active
         /\ SweepStep(type, applyPowerUp(game, type, Env))
    /\ UNCHANGED now

\* checkGameEnd() or a hit on the last life reaches gameOver()
GameOver ==
    /\ game.state.current = "playing"
    /\ SweepStep("gameOver", gameOver(game, Env))
    /\ UNCHANGED now

\* a click on the start button of the game over screen
Restart ==
    /\ game.state.current = "gameOver"
    /\ SweepStep("startGame", startGame(game, Env))
    /\ UNCHANGED now

NextSweep ==
    \/ Sweep
    \/ CollectAgain
    \/ GameOver
    \/ Restart
SpecSweep == InitSpecSweep /\ [][NextSweep]_vars

\* ------------------------------------------------- bullets in flight
\* A frame of wave 1 in which bullets of the player have come one step into
\* the bottom row: one, plain or splitting, at the left edge, the middle or
\* the right edge of the leftmost column or in the column above the ship,
\* or two plain ones in the leftmost column; the player has picked up
\* quadShot, the laser, the wingman or nothing and has not fired since.
FlightXs == {98, 120, 139, 420}
FlightKinds == {"plain", "splitShot"}
FlightTypes == {"none", "quadShot", "laser", "wingman"}
FlightVolleys ==
    {<< [x |-> x, kind |-> kind] >> : x \in FlightXs, kind \in FlightKinds}
      \cup {<< [x |-> 98, kind |-> "plain"], [x |-> 120, kind |-> "plain"] >>}

InFlight(G, drops, volley, type, env) ==
    PlaceBullets(
      DropFormation(IF type = "none" THEN G ELSE applyPowerUp(G, type, env),
                    drops),
      volley, 4, 1, env)

InitSpecFlight ==
    /\ rand = NoRandom
    /\ now = StartTime
    /\ IdlePool
    /\ IdleGrid
    /\ IdleBoxes
    /\ \E G \in {Started(Env)} :
         \E drops \in FormationDrops, volley \in FlightVolleys,
            type \in FlightTypes :
           game = InFlight(G, drops, volley, type, Env)
    /\ lastOp = NoCall
    /\ nops = 0

\* the mouse button is held down
Pressed(G) == [AtRest(G) EXCEPT !.mousePressed = TRUE]

FlightStep(input) ==
    /\ game.state.current = "playing"
    /\ now' = now + 16
    /\ game' = update(game, input, "none", [now |-> now + 16, rand |-> rand])
    /\ lastOp' = [op |-> "update", obj |-> 0, wasActive |-> FALSE]
    /\ nops' = nops + 1
    /\ UNCHANGED <<rand, poolVars, gridVars, boxVars>>

\* the game loop calls update() 16 ms after the last frame
Frame ==
    /\ nops < MaxFlight
    /\ FlightStep(AtRest(game))

\* the same while the player holds the button down for the first shot of
\* the game
FireFrame ==
    /\ nops < MaxFlight
    /\ game.input.lastShot = 0
    /\ FlightStep(Pressed(game))

NextFlight ==
    \/ Frame
    \/ FireFrame
SpecFlight == InitSpecFlight /\ [][NextFlight]_vars

\* ------------------------------------------------------- after the game
\* A frame late in wave 1 in which the player holds no, one or two bombs,
\* two or five aliens of the top row are left and a chaining bullet may have
\* come into the second of them; the game then ends and is started anew.
OverRemaining == {2, 5}
OverSalvos == {"none", "chain"}

InitSpecOver ==
    /\ rand = NoRandom
    /\ now = StartTime
    /\ IdlePool
    /\ IdleGrid
    /\ IdleBoxes
    /\ \E G \in {Started(Env)} :
         \E n \in OverRemaining, salvo \in OverSalvos, charges \in Charges :
           game = Armed(LateWave(G, 1, n, salvo, Env), charges, Env)
    /\ lastOp = NoCall
    /\ nops = 0

NextOver ==
    \/ CheckCollisions
    \/ ZapTimer
    \/ GameOver
    \/ KeyB
    \/ ContextMenu
    \/ Restart
SpecOver == InitSpecOver /\ [][NextOver]_vars

\* ------------------------------------------------- turns at a boundary
\* A frame of wave 1 or wave 3 in which the formation has come within two
\* pixels of the right or the left boundary, with slow motion running or
\* not; slow motion may start or end between two frames.
TurnWaves == {1, 3}
TurnTypes == {"none", "slowMotion"}

InitSpecTurn ==
    /\ rand = NoRandom
    /\ now = StartTime
    /\ IdlePool
    /\ IdleGrid
    /\ IdleBoxes
    /\ \E G \in {Started(Env)} :
         \E wave \in TurnWaves, dx \in Shifts, type \in TurnTypes :
           game = NearBoundary(AtWave(G, wave, Env), dx, 0, type, Env)
    /\ lastOp = NoCall
    /\ nops = 0

\* update() reaches updateAliens()
Advance ==
    /\ game.state.current = "playing"
    /\ SweepStep("updateAliens", updateAliens(game, Env))
    /\ UNCHANGED now

\* the player picks up slowMotion between two frames
SlowStarts ==
    /\ game.state.current = "playing"
    /\ ~game.powerUps.slowMotion.active
    /\ SweepStep("slowMotion", applyPowerUp(game, "slowMotion", Env))
    /\ UNCHANGED now

\* slow motion has run out when the next frame begins
SlowEnds ==
    /\ game.state.current = "playing"
    /\ game.powerUps.slowMotion.active
    /\ now' = game.powerUps.slowMotion.expireTime + 1
    /\ SweepStep("updatePowerUpTimers",
                 updatePowerUpTimers(
                   game, [now |-> game.powerUps.slowMotion.expireTime + 1,
                          rand |-> rand]))

NextTurn ==
    \/ Advance
    \/ SlowStarts
    \/ SlowEnds
SpecTurn == InitSpecTurn /\ [][NextTurn]_vars

\* ------------------------------------------------- the rows of a wave
\* The first frame of wave 1 or 3, whose formations have 5 and 6 rows, with
\* no, one or two plain bullets of the player one step into the bottom row;
\* the player has picked up the multiplier, the laser or nothing.
RowWaves == {1, 3}
RowTypes == {"none", "multiplier", "laser"}
RowVolleys ==
    {<<>>} \cup {<< [x |-> x, kind |-> "plain"] >> : x \in BulletXs}
           \cup {<< [x |-> x, kind |-> "plain"],
                    [x |-> 120, kind |-> "plain"] >> : x \in BulletXs}

\* createAliens(): the number of rows of the formation of a wave
FormationRows(wave) == Min(5 + wave \div 3, 8)

InitSpecRows ==
    /\ rand = NoRandom
    /\ now = StartTime
    /\ IdlePool
    /\ IdleGrid
    /\ IdleBoxes
    /\ \E G \in {Started(Env)} :
         \E wave \in RowWaves, type \in RowTypes, volley \in RowVolleys :
           game = PlaceBullets(
                    IF type = "none" THEN AtWave(G, wave, Env)
                    ELSE applyPowerUp(AtWave(G, wave, Env), type, Env),
                    volley, FormationRows(wave) - 1, 1, Env)
    /\ lastOp = NoCall
    /\ nops = 0

NextRows ==
    \/ CheckCollisions
    \/ Shoot
SpecRows == InitSpecRows /\ [][NextRows]_vars

Init == InitSpecPoolOpt
Next == NextPoolOpt
Spec == Init /\ [][Next]_vars

\* ---------------------------------------------------------------- claims
Slots(p) == Len(p.pool) + Len(p.active)

\* C1: after any sequence of get, release and releaseAll every object the
\* pool has created is in exactly one of the free list and the active set,
\* never twice in the free list, so active.size + pool.length equals
\* stats.totalCreated
C1_Partition ==
    /\ NoDuplicates(bullets.pool)
    /\ NoDuplicates(bullets.active)
    /\ Range(bullets.pool) \cap Range(bullets.active) = {}
    /\ Range(bullets.pool) \cup Range(bullets.active) = 1..Len(bullets.objs)
    /\ Slots(bullets) = bullets.stats.totalCreated

C1_Witness ==
    /\ lastOp.op = "release"
    /\ Len(bullets.active) > 0
    /\ Len(bullets.pool) > 0
    /\ bullets.stats.totalCreated > initialSize

\* C2: release(obj) on an object that is not active leaves the free list,
\* the active set, the stats and the objects unchanged and does not invoke
\* resetFn
C2_ReleaseInactiveNoOp ==
    [][(lastOp'.op = "release" /\ ~SetHas(bullets.active, lastOp'.obj))
         => bullets' = bullets]_vars

C2_Witness ==
    /\ lastOp.op = "release"
    /\ ~lastOp.wasActive
    /\ lastOp.obj \in Range(bullets.pool)
    /\ bullets.resets = 1

\* C3 as claimed: under get, release, releaseAll and optimize the number of
\* slots (free + active) never drops below initialSize
C3_NeverBelowInitialSize == Slots(bullets) >= initialSize

\* C3 amended: get, release and releaseAll never reduce the number of slots;
\* only optimize() can
C3_OnlyOptimizeShrinks ==
    [][lastOp'.op # "optimize" => Slots(bullets') >= Slots(bullets)]_vars

C3_Witness ==
    /\ lastOp.op \in {"release", "releaseAll"}
    /\ Slots(bullets) > initialSize
    /\ Len(bullets.active) > 0

\* C4: the array returned by getActiveObjects() keeps its contents and
\* their order whatever get, release and releaseAll calls follow
C4_SnapshotStable ==
    [][lastOp'.op # "getActiveObjects"
         => ArrayView(snap', bullets') = ArrayView(snap, bullets)]_vars

C4_Witness ==
    /\ Len(ArrayView(snap, bullets)) >= 2
    /\ lastOp.op = "release"
    /\ lastOp.wasActive
    /\ lastOp.obj = ArrayView(snap, bullets)[1]

\* the cell column and row of a coordinate
CellOf(v) == Floor(v, spatialGrid.cellSize)
Stored(e) == \E i \in DOMAIN spatialGrid.grid : e \in Range(spatialGrid.grid[i])
Within1(a, b) == a - b \in {-1, 0, 1}
InExtent(x, y) ==
    x >= 0 /\ x < CanvasWidth /\ y >= 0 /\ y < CanvasHeight

C7_OutsideNotStored ==
    \A e \in 1..MaxEntities :
      (entPos[e].inserted /\ ~InExtent(entPos[e].x, entPos[e].y)) =>
        /\ ~Stored(e)
        /\ lastOp.op = "getNearbyEntities" => e \notin Range(nearby.results)

\* C9: collision(a, b) = collision(b, a) for all pairs of boxes, zero-width
\* and zero-height boxes and contained boxes included
C9_CollisionSymmetric == overlap.called => overlap.ab = overlap.ba

C9_Witness ==
    /\ overlap.called
    /\ overlap.ab
    /\ rect1.width = 0
    /\ rect2.width > 0
    /\ rect1.x > rect2.x
    /\ rect1.x + rect1.width < rect2.x + rect2.width

\* the special-behaviour flags of a bullet
BulletFlags ==
    {"splitShot", "guidedShot", "diamondShot", "chainLightning",
     "wingmanBullet"}

\* C5: a bullet released to its pool has all its special-behaviour flags
\* cleared (every bullet on the free list has splitShot, guidedShot,
\* diamondShot, chainLightning and wingmanBullet false), so a bullet acquired
\* while the corresponding power-up is inactive never carries such a flag
C5_ReleasedBulletsClean ==
    \A i \in Range(game.pools.bullets.pool) :
      \A f \in BulletFlags : ~game.pools.bullets.objs[i][f]

\* the position used for the cell index lies in the play field
InField(o) ==
    /\ 0 <= o.x /\ o.x < CanvasWidth
    /\ 0 <= o.y /\ o.y < CanvasHeight

AllInField(G) ==
    /\ \A b \in Range(G.pools.bullets.active) :
         InField(G.pools.bullets.objs[b])
    /\ \A a \in Range(G.aliens) : InField(G.pools.aliens.objs[a])

\* the Game object with the whole play field as a single grid cell, so that
\* every bullet is tested against every alien
AllPairs(G) ==
    [G EXCEPT !.spatialGrid =
                SpatialGrid(CanvasWidth, CanvasHeight,
                            Max(CanvasWidth, CanvasHeight))]

Outcome(G) == [G EXCEPT !.spatialGrid = <<>>, !.untested = <<>>]

\* every overlapping pair of an active bullet and a formation alien inside
\* the field has the alien among the bullet's nearby entities after the
\* rebuild
NoHitLost(G) ==
    LET g == RebuildGrid(G)
    IN \A b \in Range(G.pools.bullets.active) :
         LET bullet == G.pools.bullets.objs[b]
             nearbyAliens == Range(getNearbyEntities(g, bullet.x, bullet.y))
         IN \A a \in Range(G.aliens) :
              LET alien == G.pools.aliens.objs[a]
              IN (/\ InField(bullet)
                  /\ InField(alien)
                  /\ collision(BulletBox(bullet), AlienBox(alien)))
                 => Ref("aliens", a) \in nearbyAliens

PiercingKill(i) ==
    /\ game.log[i].diamondShot
    /\ game.log[i].kind = "kill"

\* the formation aliens that the box of the bullet overlaps
Overlapped(G, bullet) ==
    {a \in Range(G.aliens) :
       collision(BulletBox(G.pools.bullets.objs[bullet]),
                 AlienBox(G.pools.aliens.objs[a]))}

\* C11: a diamondShot bullet that destroys an alien is not released: it is
\* still active after the pass, the loop over its nearby aliens went on to
\* test every remaining one, and no alien that it overlaps is left in the
\* formation
C11_PiercingGoesOn ==
    (lastOp.op = "checkCollisions" /\ game.state.current = "playing") =>
      \A i \in 1..Len(game.log) :
        PiercingKill(i) =>
          /\ SetHas(game.pools.bullets.active, game.log[i].bullet)
          /\ game.untested[i] = 0
          /\ Overlapped(game, game.log[i].bullet) = {}

\* the entries of the log of the pass just made that are hits on the alien a
HitsOn(G, a) == {i \in 1..Len(G.log) : G.log[i].alien = a}

\* the alien a of the formation has a shield of strength above 1
Shielded(G, a) ==
    /\ G.pools.aliens.objs[a].type = "shielded"
    /\ G.pools.aliens.objs[a].shieldStrength > 1

\* C12: when a player bullet overlaps an alien whose shield strength is
\* above 1, the first hit is a shield hit that lowers the strength by exactly
\* one and leaves the alien in the formation, a pass of shield hits alone
\* awards no score, and the alien leaves the formation only with a second hit
C12_ShieldTakesFirstHit ==
    [][(lastOp'.op = "checkCollisions" /\ game'.state.current = "playing") =>
         /\ \A a \in Range(game.aliens) :
              (Shielded(game, a) /\ HitsOn(game', a) # {}) =>
                LET first == CHOOSE i \in HitsOn(game', a) :
                               \A j \in HitsOn(game', a) : i <= j
                IN /\ game'.log[first].kind = "shield"
                   /\ game'.pools.aliens.objs[a].shieldStrength
                        = game.pools.aliens.objs[a].shieldStrength - 1
                   /\ Cardinality(HitsOn(game', a)) = 1
                        => SetHas(game'.aliens, a)
                   /\ ~SetHas(game'.aliens, a)
                        => \E j \in HitsOn(game', a) :
                             j > first /\ game'.log[j].kind = "kill"
         /\ (/\ game'.log # <<>>
             /\ \A i \in 1..Len(game'.log) : game'.log[i].kind = "shield"
             /\ game.pools.powerUps.active = <<>>)
              => game'.state.score = game.state.score]_vars

\* a pass in which an alien with shield strength 2 took a shield hit from
\* one bullet and was destroyed by the next
C12_Witness ==
    /\ lastOp.op = "checkCollisions"
    /\ game.state.current = "playing"
    /\ \E i, j \in 1..Len(game.log) :
         /\ i < j
         /\ game.log[i].alien = game.log[j].alien
         /\ game.log[i].kind = "shield"
         /\ game.log[j].kind = "kill"
         /\ ~SetHas(game.aliens, game.log[i].alien)

\* C13: a diamondShot bullet that hits an alien whose shield strength is
\* above 1 is not destroyed: it is still active in the bullets pool after
\* the hit
C13_PiercingSurvivesShield ==
    (lastOp.op = "checkCollisions" /\ game.state.current = "playing") =>
      \A i \in 1..Len(game.log) :
        (game.log[i].diamondShot /\ game.log[i].kind = "shield") =>
          SetHas(game.pools.bullets.active, game.log[i].bullet)

\* the pass from game to game' destroyed exactly one alien, a normal alien
\* of row 0, with a bullet that carries no flag, while no multiplier was
\* active and no item was in play
OneDefaultKillInRowZero ==
    /\ lastOp'.op = "checkCollisions"
    /\ game'.state.current = "playing"
    /\ Len(game'.log) = 1
    /\ game'.log[1].kind = "kill"
    /\ game.pools.aliens.objs[game'.log[1].alien].type = "normal"
    /\ game.pools.aliens.objs[game'.log[1].alien].row = 0
    /\ \A f \in BulletFlags : ~game.pools.bullets.objs[game'.log[1].bullet][f]
    /\ ~game.powerUps.multiplier.active
    /\ game.pools.powerUps.active = <<>>

\* the formation lost exactly the alien of the one hit of the pass
ExactlyThatAlienRemoved ==
    game'.aliens = SelectSeq(game.aliens, LAMBDA a : a # game'.log[1].alien)

\* C14 as stated: destroying a normal alien in row 0 with one default bullet
\* while no multiplier is active increases the score by exactly 10 and
\* removes exactly that alien from the formation
C14_RowZeroKillAwardsTen ==
    [][OneDefaultKillInRowZero =>
         /\ game'.state.score = game.state.score + 10
         /\ ExactlyThatAlienRemoved]_vars

\* C14 as amended: such a kill increases the score by exactly 40, which is
\* (4 - row) * 10 for row 0, and removes exactly that alien
C14_RowZeroKillAwardsForty ==
    [][OneDefaultKillInRowZero =>
         /\ game'.state.score = game.state.score + 40
         /\ ExactlyThatAlienRemoved]_vars

\* a pass whose one hit destroyed a normal alien of row 0 with a bullet
\* without flags, at a score that was 0 before
C14_Witness ==
    /\ lastOp.op = "checkCollisions"
    /\ game.state.current = "playing"
    /\ Len(game.log) = 1
    /\ game.log[1].kind = "kill"
    /\ ~game.log[1].diamondShot
    /\ game.pools.aliens.objs[game.log[1].alien].type = "normal"
    /\ game.pools.aliens.objs[game.log[1].alien].row = 0
    /\ game.state.score = 40
    /\ Len(game.aliens) = 54

\* the active alien bullets whose box overlaps the player's
Striking(G) ==
    {b \in Range(G.pools.alienBullets.active) :
       collision(BulletBox(G.pools.alienBullets.objs[b]), PlayerBox(G.player))}

\* no item is in play in the pass from game to game': none is falling when
\* it begins and no explosion of the pass drops one
NoItemInPlay ==
    /\ game.pools.powerUps.active = <<>>
    /\ game'.powerUpManager.lastDropTime = game.powerUpManager.lastDropTime

\* C16: when one alien bullet hits the player while the shield is active,
\* the shield record and the player's shield flag both become inactive,
\* lives is unchanged, the bullet is released and the game stays in playing
C16_ShieldAbsorbsHit ==
    [][(/\ lastOp'.op = "checkCollisions"
        /\ game.powerUps.shield.active
        /\ Cardinality(Striking(game)) = 1
        /\ NoItemInPlay) =>
         /\ ~game'.powerUps.shield.active
         /\ ~game'.player.shield
         /\ game'.state.lives = game.state.lives
         /\ \A b \in Striking(game) :
              /\ ~SetHas(game'.pools.alienBullets.active, b)
              /\ SetHas(game'.pools.alienBullets.pool, b)
         /\ game'.state.current = "playing"]_vars

\* a pass that began with the shield active and an alien bullet on the
\* player, and ended with the shield gone and the bullet back in its pool
C16_Witness ==
    /\ lastOp.op = "checkCollisions"
    /\ nops = 1
    /\ game.powerUps.shield.expireTime = Infinity
    /\ ~game.powerUps.shield.active
    /\ ~game.player.shield
    /\ game.state.lives = 3
    /\ game.pools.alienBullets.active = <<>>
    /\ game.state.current = "playing"

\* C17: when one alien bullet hits a player without shield, lives decreases
\* by exactly 1 and the bullet is released; if lives thereby reaches 0 the
\* state is gameOver when the pass ends; and in every state between steps a
\* game that is playing has at least one life
C17_HitCostsOneLife ==
    /\ [][(/\ lastOp'.op = "checkCollisions"
           /\ ~game.powerUps.shield.active
           /\ Cardinality(Striking(game)) = 1
           /\ NoItemInPlay) =>
            /\ game'.state.lives = game.state.lives - 1
            /\ \A b \in Striking(game) :
                 ~SetHas(game'.pools.alienBullets.active, b)
            /\ game'.state.lives > 0 => game'.state.current = "playing"]_vars
    /\ [][(/\ lastOp'.op = "checkCollisions"
           /\ ~game.powerUps.shield.active
           /\ Striking(game) # {}
           /\ game.state.lives = 1) =>
            /\ game'.state.lives = 0
            /\ game'.state.current = "gameOver"]_vars
    /\ [](game.state.current = "playing" => game.state.lives >= 1)

\* a pass in which the last life was lost and the game ended
C17_Witness ==
    /\ lastOp.op = "checkCollisions"
    /\ game.state.lives = 0
    /\ game.state.current = "gameOver"
    /\ game.pools.alienBullets.active = <<>>

\* C15: while the multiplier power-up is active, the score awarded for an
\* alien kill is twice the base score by row and type, and once it has
\* expired the award is the single value again; checked for every frame
\* that destroys exactly one alien and in which no item is in play
C15_MultiplierDoubles ==
    [][(/\ lastOp'.op = "update"
        /\ game'.state.current = "playing"
        /\ Len(game'.log) = 1
        /\ game'.log[1].kind = "kill"
        /\ NoItemInPlay) =>
         game'.state.score =
           game.state.score
             + BaseScore(game.pools.aliens.objs[game'.log[1].alien])
                 * (IF game'.powerUps.multiplier.active THEN 2 ELSE 1)]_vars

\* the power-up records that a timer ends
TimedKeys == PowerUpKeys \ {"shield"}

\* collecting a timed power-up at time T sets its record active with
\* expireTime T + D
CollectedAt ==
    \A k \in TimedKeys :
      lastOp'.op = k =>
        /\ game'.powerUps[k].active
        /\ game'.powerUps[k].expireTime = now' + PowerUpConfig[k].duration

\* C18 as stated: a timed power-up collected at time T with duration D is
\* active after every update() run at a time T' with T <= T' < T + D and
\* inactive after every update() run at a time T' >= T + D
C18_ActiveUntilExpiry ==
    /\ [][CollectedAt]_vars
    /\ [](lastOp.op = "update" =>
            \A k \in TimedKeys :
              game.powerUps[k].expireTime > 0 =>
                (game.powerUps[k].active <=> now < game.powerUps[k].expireTime))

\* C18 as amended: it is active after every update() run at a time T' with
\* T <= T' <= T + D and inactive after every update() run at a time
\* T' > T + D
C18_ActiveThroughExpiry ==
    /\ [][CollectedAt]_vars
    /\ [](lastOp.op = "update" =>
            \A k \in TimedKeys :
              game.powerUps[k].expireTime > 0 =>
                (game.powerUps[k].active <=> now <= game.powerUps[k].expireTime))

\* an update() 16 ms after the one that ran exactly at T + D: the multiplier
\* has just expired
C18_Witness ==
    /\ lastOp.op = "update"
    /\ ~game.powerUps.multiplier.active
    /\ game.powerUps.multiplier.expireTime > 0
    /\ now = game.powerUps.multiplier.expireTime + 16
    /\ game.powerUps.rapidFire.expireTime > 0

\* C19: once collected, the shield stays active through every update() and
\* any elapsed time: a step that makes its record inactive is either
\* startGame() or an update() in which an alien bullet hit the player and
\* was released
C19_ShieldIsPermanent ==
    [][(game.powerUps.shield.active /\ ~game'.powerUps.shield.active) =>
         \/ lastOp'.op = "startGame"
         \/ /\ lastOp'.op = "update"
            /\ game'.pools.alienBullets.resets
                 > game.pools.alienBullets.resets]_vars

\* the shield outlasted a pause as long as the multiplier's duration and was
\* then taken by an alien bullet
C19_Witness ==
    /\ lastOp.op = "update"
    /\ game.powerUps.shield.expireTime = Infinity
    /\ ~game.powerUps.shield.active
    /\ now > StartTime + PowerUpConfig.multiplier.duration
    /\ game.state.lives = 3

\* C20: startGame() returns every power-up record other than bomb to
\* inactive with expireTime 0 and leaves the bomb count unchanged, the
\* bomb being ready in the new game when a charge is left
C20_StartGameKeepsBombs ==
    [][lastOp'.op = "startGame" =>
         /\ \A k \in PowerUpKeys :
              /\ ~game'.powerUps[k].active
              /\ game'.powerUps[k].expireTime = 0
         /\ game'.bomb.count = game.bomb.count
         /\ game'.bomb.ready = (game.bomb.count > 0)]_vars

\* a new game started after a bomb and the shield were collected in the one
\* before
C20_Witness ==
    /\ lastOp.op = "startGame"
    /\ game.bomb.count = 1
    /\ game.bomb.ready
    /\ game.state.highScore
         = PowerUpConfig.bomb.score + PowerUpConfig.shield.score
    /\ game.state.score = 0

\* the active items whose box overlaps the player's
Falling(G) ==
    {i \in Range(G.pools.powerUps.active) :
       collision(ItemBox(G.pools.powerUps.objs[i]), PlayerBox(G.player))}

\* C25: when the player overlaps an active item of kind k, the item is
\* released to its pool and the collection is applied exactly once for that
\* kind k, the one the item carried while falling, adding the score
\* configured for k; checked for passes in which nothing else scores or
\* strikes
C25_CollectedKindApplied ==
    [][(/\ lastOp'.op = "checkCollisions"
        /\ Cardinality(Falling(game)) = 1
        /\ Striking(game) = {}
        /\ game'.log = <<>>) =>
         \A i \in Falling(game) :
           LET k == game.pools.powerUps.objs[i].type
           IN /\ ~SetHas(game'.pools.powerUps.active, i)
              /\ game'.state.score = game.state.score + PowerUpConfig[k].score
              /\ game'.powerUps = applyPowerUp(game, k, Env).powerUps
              /\ game'.state.lives = applyPowerUp(game, k, Env).state.lives
              /\ game'.bomb = applyPowerUp(game, k, Env).bomb]_vars

\* the alien's x is at or beyond the left or the right boundary
TouchesBoundary(a) ==
    \/ 20 * a.x + a.sub <= 0
    \/ 20 * a.x + a.sub >= 20 * (CanvasWidth - AlienWidth)

\* the aliens of the formation that are at or beyond a boundary after the
\* move of the step
Touching == {a \in Range(game.aliens) :
               TouchesBoundary(game'.pools.aliens.objs[a])}

\* C28: in a step of updateAliens() after whose move at least one alien is
\* at or beyond a horizontal boundary, the direction is negated once and
\* every alien of the formation is DropDistance lower, however many aliens
\* touch; in a step in which none does, the direction and every y are as
\* before
C28_DropOncePerStep ==
    [][lastOp'.op = "updateAliens" =>
         /\ game'.aliens = game.aliens
         /\ game'.alienMovement.direction =
              IF Touching # {} THEN -game.alienMovement.direction
              ELSE game.alienMovement.direction
         /\ \A a \in Range(game.aliens) :
              game'.pools.aliens.objs[a].y =
                  game.pools.aliens.objs[a].y
                    + (IF Touching # {} THEN DropDistance ELSE 0)]_vars

\* five aliens of the right column are at the boundary after the move of
\* the last updateAliens(), and the formation has dropped
C28_Witness ==
    /\ lastOp.op = "updateAliens"
    /\ game.alienMovement.direction = -1
    /\ Cardinality({a \in Range(game.aliens) :
                      game.pools.aliens.objs[a].x >= CanvasWidth - AlienWidth})
         = 5
    /\ \E a \in Range(game.aliens) :
         /\ game.pools.aliens.objs[a].row = 0
         /\ game.pools.aliens.objs[a].y = 50 + DropDistance

\* what an alien bullet has gone down in the step, in tenths of a pixel
Descent(b) ==
    10 * (game'.pools.alienBullets.objs[b].y - game.pools.alienBullets.objs[b].y)
      + game'.pools.alienBullets.objs[b].sub - game.pools.alienBullets.objs[b].sub

\* C29: while timeWarp is active, every alien bullet goes down less in a
\* step of updateBullets() than the speed it goes down with when timeWarp
\* is not active
C29_TimeWarpSlowsAlienBullets ==
    [][(lastOp'.op = "updateBullets" /\ game.powerUps.timeWarp.active) =>
         \A b \in Range(game.pools.alienBullets.active) :
           SetHas(game'.pools.alienBullets.active, b) =>
             Descent(b) < game.pools.alienBullets.objs[b].speed]_vars

Simulation(G) ==
    [player |-> G.player, wingman |-> G.wingman, pools |-> G.pools,
     aliens |-> G.aliens, alienMovement |-> G.alienMovement,
     score |-> G.state.score, lives |-> G.state.lives,
     wave |-> G.state.wave, bomb |-> G.bomb]

\* C22: while the game is paused no event changes the simulation: a step
\* that begins and ends in the state paused leaves the entities, the pools,
\* the formation, score, lives, wave and bomb charges as they were
C22_PauseFreezesSimulation ==
    [][(game.state.current = "paused" /\ game'.state.current = "paused") =>
         Simulation(game') = Simulation(game)]_vars

\* C23: pausing does not consume the duration of a timed power-up: over a
\* step that begins and ends in the state paused an active timed power-up
\* stays active and the time it has left, expireTime - Date.now(), is the
\* same
C23_PauseKeepsRemainingTime ==
    [][(game.state.current = "paused" /\ game'.state.current = "paused") =>
         \A k \in TimedKeys :
           game.powerUps[k].active =>
             /\ game'.powerUps[k].active
             /\ game'.powerUps[k].expireTime - now'
                  = game.powerUps[k].expireTime - now]_vars

\* the callback of the step has called update()
Executed == Len(game'.executed) = Len(game.executed) + 1

\* C24 as stated: a callback of gameLoop() executes update() only if a
\* frame quantum of 1000 / 60 ms has passed since lastFrameTime, and a
\* callback that does not execute it changes nothing, lastFrameTime
\* included
C24_SkippedCallbackChangesNothing ==
    [][lastOp'.op = "gameLoop" =>
         IF Executed
         THEN TargetFPS * ((now' - StartTime) - game.lastFrameTime) >= 1000
         ELSE game' = game]_vars

\* C24: a callback of gameLoop() executes update() only if a frame quantum
\* of 1000 / 60 ms has passed since lastFrameTime; a callback that does not
\* execute it changes nothing but lastFrameTime, and that only when it was
\* unset, to the callback's own time; any two executed steps are at least a
\* quantum apart
C24_FrameLimiting ==
    [][lastOp'.op = "gameLoop" =>
         IF Executed
         THEN /\ game.lastFrameTime # 0
              /\ TargetFPS * ((now' - StartTime) - game.lastFrameTime) >= 1000
              /\ game'.lastFrameTime = now' - StartTime
              /\ \A i \in 1..Len(game.executed) :
                   TargetFPS * ((now' - StartTime) - game.executed[i]) >= 1000
         ELSE game' = [game EXCEPT
                         !.lastFrameTime = IF @ = 0 THEN now' - StartTime
                                           ELSE @]]_vars

\* two steps have been executed 25 ms apart: the callback 8 ms after the
\* first was skipped
C24_Witness ==
    /\ lastOp.op = "gameLoop"
    /\ Len(game.executed) >= 2
    /\ game.lastFrameTime = game.executed[Len(game.executed)]
    /\ game.executed[Len(game.executed)]
         - game.executed[Len(game.executed) - 1] = 25

\* the aliens the sequence was armed for: those within the chain radius
Targets(seq) == {seq.sequence[k].alien : k \in 1..Len(seq.sequence)}

RECURSIVE Spliced(_)
Spliced(log) ==
    IF log = <<>> THEN 0 ELSE log[1].removed + Spliced(Tail(log))

\* C27: when a pass of checkCollisions() leaves the formation empty while
\* the state is playing, the wave goes up by one in that pass, the speed of
\* the formation by SpeedIncrement, and a formation of rows x cols aliens is
\* created for the new wave, rows = min(5 + floor(wave / 3), 8) and
\* cols = max(11 - floor(wave / 5), 6); in any other pass wave and speed are
\* as before
C27_EmptyFormationAdvancesWave ==
    [][(lastOp'.op = "checkCollisions" /\ game'.state.current = "playing") =>
         IF Spliced(game'.log) = Len(game.aliens)
         THEN /\ game'.state.wave = game.state.wave + 1
              /\ game'.alienMovement.speed
                   = game.alienMovement.speed + SpeedIncrement
              /\ LET rows == Min(5 + game'.state.wave \div 3, 8)
                     cols == Max(11 - game'.state.wave \div 5, 6)
                 IN /\ Len(game'.aliens) = rows * cols
                    /\ NoDuplicates(game'.aliens)
                    /\ \A k \in 1..(rows * cols) :
                         LET a == game'.pools.aliens.objs[game'.aliens[k]]
                         IN /\ a.row = (k - 1) \div cols
                            /\ a.x = 100 + ((k - 1) % cols) * 50
                            /\ a.y = 50 + ((k - 1) \div cols) * 40
         ELSE /\ game'.state.wave = game.state.wave
              /\ game'.alienMovement.speed = game.alienMovement.speed
              /\ Len(game'.aliens) = Len(game.aliens) - Spliced(game'.log)]_vars

\* the last aliens of wave 4 have been shot and wave 5 has begun, with six
\* rows of ten
C27_Witness ==
    /\ lastOp.op = "checkCollisions"
    /\ game.state.wave = 5
    /\ Len(game.log) = 2
    /\ Len(game.aliens) = 60

Reverted(G, k) ==
    IF k = "wingman" THEN ~G.wingman.active
    ELSE IF k = "multiplier" THEN G.player.pointsMultiplier = 1
    ELSE IF k = "slowMotion" THEN TRUE
    ELSE G.player[k] = FALSE

\* C31: a sweep that turns a timed record from active to inactive leaves
\* the effect of its collection undone (the player's flag cleared,
\* pointsMultiplier 1, the wingman ship inactive) and runs the record's
\* expiration effect once; no other step, a later sweep included, runs it
C31_ExpiryRevertsEffectOnce ==
    [][\A k \in TimedKeys :
         LET expires == /\ lastOp'.op = "updatePowerUpTimers"
                        /\ game.powerUps[k].active
                        /\ ~game'.powerUps[k].active
         IN /\ expires => Reverted(game', k)
            /\ k \in ExpirationMap =>
                 game'.expirations[k]
                   = game.expirations[k] + (IF expires THEN 1 ELSE 0)]_vars

\* the laser and the wingman were picked up at the start; the laser expired
\* in one sweep and the wingman in a later one, each effect has run once
C31_Witness ==
    /\ lastOp.op = "updatePowerUpTimers"
    /\ game.expirations.wingman = 1
    /\ game.expirations.laser = 1
    /\ ~game.wingman.active
    /\ ~game.player.laser
    /\ ~game.powerUps.wingman.active
    /\ ~game.powerUps.laser.active
    /\ now >= StartTime + PowerUpConfig.wingman.duration

\* C37: the wingman ship is active only while the wingman record is
\* active, in every state reached by collections, sweeps, game overs and
\* startGame() calls
C37_WingmanOnlyWhileRecordActive ==
    game.wingman.active => game.powerUps.wingman.active

\* the hits of the step's collision pass
NewHits == {game'.log[i] : i \in 1..Len(game'.log)}
\* the player bullets that the step has made active
NewBullets == Range(game'.pools.bullets.active)
                \ Range(game.pools.bullets.active)

\* C32: in a frame in which a bullet carrying splitShot destroys an alien
\* (and neither the player nor the wingman shoots) that bullet is released
\* and exactly N bullets become active, N = 3 while quadShot is active and
\* 4 otherwise, all at the impact point and none carrying splitShot; a
\* frame whose only kills are by bullets without splitShot, fragments
\* included, makes no bullet active
C32_SplitSpawnsNFragments ==
    [][LET kills == {e \in NewHits : e.kind = "kill"}
           splits == {e \in kills : e.splitShot}
           N == IF game.powerUps.quadShot.active THEN 3 ELSE 4
       IN (lastOp'.op = "update"
             /\ game'.input.lastShot = game.input.lastShot
             /\ game'.wingman.lastShot = game.wingman.lastShot) =>
            /\ Cardinality(NewBullets) = N * Cardinality(splits)
            /\ \A e \in splits :
                 /\ ~SetHas(game'.pools.bullets.active, e.bullet)
                 /\ Cardinality({b \in NewBullets :
                        /\ game'.pools.bullets.objs[b].x = e.x
                        /\ game'.pools.bullets.objs[b].y = e.y
                        /\ ~game'.pools.bullets.objs[b].splitShot}) = N]_vars

\* quadShot is active; the splitting bullet destroyed its alien and left
\* three fragments, and in this frame the fragment that flies to the right
\* has destroyed the next alien of the row: it is released, two fragments
\* are left and no bullet has become active
C32_Witness ==
    /\ lastOp.op = "update"
    /\ game.powerUps.quadShot.active
    /\ Len(game.log) = 1
    /\ game.log[1].kind = "kill"
    /\ ~game.log[1].splitShot
    /\ ~SetHas(game.pools.bullets.active, game.log[1].bullet)
    /\ Len(game.aliens) = Len(Started(Env).aliens) - 2
    /\ Len(game.pools.bullets.active) = 2

\* C36: every player bullet that becomes active is released in the end
\* while the game keeps executing frames. Bullet.update() adds the same
\* speed to y in every frame and updateBullets() releases a bullet that
\* hits nothing only once y < 0, so this asks that every frame which leaves
\* a bullet in flight has brought it nearer to the top edge
C36_BulletsInFlightRise ==
    [][lastOp'.op = "update" =>
         \A b \in Range(game.pools.bullets.active)
                  \cap Range(game'.pools.bullets.active) :
           game'.pools.bullets.objs[b].y < game.pools.bullets.objs[b].y]_vars

Destroyed == Range(game.aliens) \ Range(game'.aliens)
\* the places in the log of the pass at which a kill stands
KillsAt == {i \in 1..Len(game'.log) : game'.log[i].kind = "kill"}
\* what the step awards for the alien a when it destroys it once: the laser
\* awards by row only, a bullet by row and type
AwardFor(a) ==
    IF \E i \in KillsAt : game'.log[i].alien = a
    THEN BaseScore(game.pools.aliens.objs[a]) * Multiplier(game)
    ELSE (4 - game.pools.aliens.objs[a].row) * 10 * Multiplier(game)

RECURSIVE SumOfAwards(_)
SumOfAwards(S) ==
    IF S = {} THEN 0
    ELSE LET a == CHOOSE a \in S : TRUE
         IN AwardFor(a) + SumOfAwards(S \ {a})

\* C34: a frame destroys and scores an alien at most once: no two kills of
\* its collision pass are of the same alien, every kill is of an alien
\* that the frame has taken out of the formation, the score rises by one
\* award for each alien taken out, and a bullet leaves the pool only by a
\* hit of the pass
C34_OneKillPerAlien ==
    [][lastOp'.op = "update" =>
         /\ \A i, j \in KillsAt :
              game'.log[i].alien = game'.log[j].alien => i = j
         /\ {game'.log[i].alien : i \in KillsAt} \subseteq Destroyed
         /\ game'.state.score = game.state.score + SumOfAwards(Destroyed)
         /\ Range(game.pools.bullets.active)
               \ Range(game'.pools.bullets.active)
              \subseteq {e.bullet : e \in NewHits}]_vars

\* the bullets in flight that lie over the place of an alien the formation
\* has lost
OverRemoved ==
    {b \in Range(game.pools.bullets.active) :
       \E a \in 1..Len(game.pools.aliens.objs) :
         /\ ~SetHas(game.aliens, a)
         /\ SetHas(game.pools.aliens.active, a)
         /\ collision(BulletBox(game.pools.bullets.objs[b]),
                      AlienBox(game.pools.aliens.objs[a]))}

\* the laser has just cleared the column above the ship and the bullet that
\* was in that column's bottom alien flies on, the pass having resolved no
\* hit; or of two bullets in one alien one has destroyed it and the other
\* flies on
C34_Witness ==
    /\ lastOp.op = "update"
    /\ OverRemoved # {}
    /\ \/ /\ game.powerUps.laser.active
          /\ game.log = <<>>
          /\ Len(game.aliens) = Len(Started(Env).aliens) - 5
          /\ game.state.score = PowerUpConfig.laser.score + 100
       \/ /\ ~game.powerUps.laser.active
          /\ Len(game.log) = 1
          /\ ~game.log[1].splitShot
          /\ Len(game.aliens) = Len(Started(Env).aliens) - 1

\* C35: at the end of every step the active set of the aliens pool holds
\* exactly the aliens of the formation: an alien that leaves the formation
\* is released to the pool
C35_ActiveAliensAreTheFormation ==
    Range(game.pools.aliens.active) = Range(game.aliens)

\* C39: once the game is over, the score, the wave, the speed of the
\* formation, the formation and the bombs stay as they are until
\* startGame() is called, whatever key, click or timer comes
C39_GameOverIsFrozen ==
    [][(game.state.current = "gameOver" /\ lastOp'.op # "startGame") =>
         /\ game'.state.current = "gameOver"
         /\ game'.state.score = game.state.score
         /\ game'.state.wave = game.state.wave
         /\ game'.alienMovement.speed = game.alienMovement.speed
         /\ game'.aliens = game.aliens
         /\ game'.bomb.count = game.bomb.count]_vars

\* C38: the formation does not reverse and drop in two updateAliens() in a
\* row: the one after a reversal takes every alien off that boundary, also
\* when slow motion has started or ended in between
C38_NoTwoReversalsInARow ==
    [][(lastOp'.op = "updateAliens" /\ game.dropped) => ~game'.dropped]_vars

\* C40: within a game the score never goes down: a kill of an alien of any
\* row of any wave's formation adds an amount that is not negative
C40_ScoreNeverDecreases ==
    [][game'.state.score >= game.state.score]_vars
====
